---- MODULE Spec2Model ----
(***************************************************************************)
(* Idempotent dispatch pipeline of jde-to-datalake: the scheduled batch    *)
(* path (dags/dag_bakery_system_to_jde.py: parse_bakery_system_json and    *)
(* post_data_to_jde) and the interactive paths (jde_helper.py:             *)
(* dispatch_single_batch_to_jde, dispatch_prepared_payload_to_jde) over    *)
(* the shared ledger table ingredient_submitted_status and the JDE         *)
(* destination endpoint.                                                   *)
(*                                                                         *)
(* Quantities are written as the Python literal of the value ("5" is the   *)
(* int 5, "'5'" the str '5', "None" the value None).  The JDE credentials  *)
(* (JDE_IA_URL, JDE_CARDEX_USERNAME, JDE_CARDEX_PASSWORD) are taken to be  *)
(* configured.                                                             *)
(***************************************************************************)
EXTENDS Naturals, Sequences, FiniteSets, TLC

\* ------------------------------------------------------------------ bounds
\* Total number of invocations (DAG runs and interactive dispatches).
MaxRuns == 2

\* Runner slots: two workers that may each execute an invocation.
Procs == {1, 2}

\* ------------------------------------------------------- quantity literals
\* quantity is None or quantity == 0 or (str and strip() in ['0','','0.0'])
IsZeroOrNull(q) == q \in {"None", "0", "0.0", "'0'", "''", "' '", "'0.0'"}

\* Python truthiness of the value: `not batch_data.get(field)`.
Falsy(v) == v \in {"None", "0", "0.0", "''", ""}

\* ----------------------------------------------------- decimal arithmetic
\* Natural numbers of any size as sequences of decimal digits, most
\* significant digit first.
RECURSIVE StripZeros(_)
StripZeros(ds) == IF Len(ds) > 1 /\ ds[1] = 0 THEN StripZeros(Tail(ds)) ELSE ds

RECURSIVE NatDigits(_)
NatDigits(n) == IF n < 10 THEN <<n>> ELSE Append(NatDigits(n \div 10), n % 10)

\* ds * m + carry, for a small m.
RECURSIVE Times(_, _, _)
Times(ds, m, carry) ==
    IF ds = <<>> THEN (IF carry = 0 THEN <<>> ELSE NatDigits(carry))
    ELSE LET d == ds[Len(ds)] * m + carry
         IN Append(Times(SubSeq(ds, 1, Len(ds) - 1), m, d \div 10), d % 10)

\* Quotient and remainder of (rem * 10^Len(ds) + ds) by a small d.
RECURSIVE Quot(_, _, _)
Quot(ds, d, rem) ==
    IF ds = <<>> THEN <<>>
    ELSE LET x == rem * 10 + ds[1]
         IN <<x \div d>> \o Quot(Tail(ds), d, x % d)

RECURSIVE Rem(_, _, _)
Rem(ds, d, rem) ==
    IF ds = <<>> THEN rem ELSE Rem(Tail(ds), d, (rem * 10 + ds[1]) % d)

RECURSIVE Plus1(_)
Plus1(ds) ==
    IF ds = <<>> THEN <<1>>
    ELSE IF ds[Len(ds)] < 9 THEN [ds EXCEPT ![Len(ds)] = @ + 1]
    ELSE Append(Plus1(SubSeq(ds, 1, Len(ds) - 1)), 0)

RECURSIVE LexLess(_, _)
LexLess(a, b) ==
    /\ a # <<>>
    /\ \/ a[1] < b[1]
       \/ a[1] = b[1] /\ LexLess(Tail(a), Tail(b))

\* a < b for digit sequences of any length.
Less(a, b) ==
    LET x == StripZeros(a)
        y == StripZeros(b)
    IN Len(x) < Len(y) \/ (Len(x) = Len(y) /\ LexLess(x, y))

IsOdd(ds) == ds # <<>> /\ ds[Len(ds)] % 2 = 1
IsZero(ds) == \A i \in 1..Len(ds) : ds[i] = 0
Zeros(n) == [i \in 1..n |-> 0]

\* ------------------------------------------------------------- float(...)
\* 2^52: a double has 53 significant bits.
TwoTo52 == <<4, 5, 0, 3, 5, 9, 9, 6, 2, 7, 3, 7, 0, 4, 9, 6>>
TwoTo36 == <<6, 8, 7, 1, 9, 4, 7, 6, 7, 3, 6>>

\* The double nearest to digits / 10^f (ties to even), as mantissa / 2^bits:
\* the value is doubled (16 times at once while that is not too much) until
\* its integer part has 53 bits, then rounded on the f digits behind it.  For
\* values below 2^53.
RECURSIVE ScaleUp(_, _, _)
ScaleUp(X, f, bits) ==
    LET Q == SubSeq(X, 1, Len(X) - f)
    IN IF ~Less(Q, TwoTo52) THEN [digits |-> X, bits |-> bits]
       ELSE IF Less(Q, TwoTo36) THEN ScaleUp(Times(X, 65536, 0), f, bits + 16)
       ELSE ScaleUp(Times(X, 2, 0), f, bits + 1)

ToDouble(digits, f) ==
    IF IsZero(digits) THEN [mantissa |-> <<0>>, bits |-> 0]
    ELSE LET s == ScaleUp(digits, f, 0)
             Q == SubSeq(s.digits, 1, Len(s.digits) - f)
             R == SubSeq(s.digits, Len(s.digits) - f + 1, Len(s.digits))
             half == IF f = 0 THEN <<>> ELSE <<5>> \o Zeros(f - 1)
             up == f > 0 /\ (Less(half, R) \/ (R = half /\ IsOdd(Q)))
         IN [mantissa |-> IF up THEN Plus1(Q) ELSE Q, bits |-> s.bits]

\* ------------------------------------------------------------ f"{x:.9f}"
\* mantissa * 10^9 / 2^bits rounded to an integer on the exact value (ties to
\* even): the bit shifted out last decides, with the bits shifted out before.
RECURSIVE ShiftDown(_, _, _, _)
ShiftDown(T, bits, round, sticky) ==
    IF bits = 0 THEN [T |-> T, round |-> round, sticky |-> sticky]
    ELSE IF bits > 16 /\ ~round
    THEN ShiftDown(Quot(T, 65536, 0), bits - 16, FALSE,
                   sticky \/ Rem(T, 65536, 0) # 0)
    ELSE ShiftDown(Quot(T, 2, 0), bits - 1, IsOdd(T), sticky \/ round)

DigitChar(d) == SubSeq("0123456789", d + 1, d + 1)

RECURSIVE DigitsToStr(_)
DigitsToStr(ds) == IF ds = <<>> THEN "" ELSE DigitChar(ds[1]) \o DigitsToStr(Tail(ds))

\* Fixed-point text with 9 fractional digits of the double.
Format9(neg, dbl) ==
    LET s == ShiftDown(dbl.mantissa \o Zeros(9), dbl.bits, FALSE, FALSE)
        up == s.round /\ (s.sticky \/ IsOdd(s.T))
        T == IF up THEN Plus1(s.T) ELSE s.T
        P == Zeros(10) \o T
        int == StripZeros(SubSeq(P, 1, Len(P) - 9))
        frac == SubSeq(P, Len(P) - 8, Len(P))
    IN (IF neg THEN "-" ELSE "") \o DigitsToStr(int) \o "." \o DigitsToStr(frac)

\* str.rstrip(ch)
RECURSIVE RStrip(_, _)
RStrip(s, ch) ==
    IF Len(s) > 0 /\ SubSeq(s, Len(s), Len(s)) = ch
    THEN RStrip(IF Len(s) = 1 THEN "" ELSE SubSeq(s, 1, Len(s) - 1), ch)
    ELSE s

\* -------------------------------------------------------- Decimal(str(q))
\* str(q) of a value written as a Python literal: the content of a string,
\* the literal itself otherwise.
PyStr(q) ==
    IF Len(q) >= 2 /\ SubSeq(q, 1, 1) = "'" /\ SubSeq(q, Len(q), Len(q)) = "'"
    THEN (IF Len(q) = 2 THEN "" ELSE SubSeq(q, 2, Len(q) - 1))
    ELSE q

DigitOf(ch) ==
    CASE ch = "0" -> 0 [] ch = "1" -> 1 [] ch = "2" -> 2 [] ch = "3" -> 3
      [] ch = "4" -> 4 [] ch = "5" -> 5 [] ch = "6" -> 6 [] ch = "7" -> 7
      [] ch = "8" -> 8 [] ch = "9" -> 9 [] OTHER -> 10

\* Digits of s from position i up to the first character that is no digit.
RECURSIVE DigitsFrom(_, _)
DigitsFrom(s, i) ==
    IF i > Len(s) \/ DigitOf(SubSeq(s, i, i)) = 10 THEN <<>>
    ELSE <<DigitOf(SubSeq(s, i, i))>> \o DigitsFrom(s, i + 1)

\* The numeral [sign] digits [. digits] read by Decimal; ok is FALSE for any
\* other text (Decimal raises).
ParseDecimal(s) ==
    LET signed == Len(s) > 0 /\ SubSeq(s, 1, 1) \in {"-", "+"}
        neg == signed /\ SubSeq(s, 1, 1) = "-"
        start == IF signed THEN 2 ELSE 1
        int == DigitsFrom(s, start)
        dot == start + Len(int)
        hasDot == dot <= Len(s) /\ SubSeq(s, dot, dot) = "."
        frac == IF hasDot THEN DigitsFrom(s, dot + 1) ELSE <<>>
        end == dot + (IF hasDot THEN 1 + Len(frac) ELSE 0)
    IN [ok |-> Len(int) + Len(frac) > 0 /\ end = Len(s) + 1,
        neg |-> neg, int |-> int, frac |-> frac]

\* f"{float(Decimal(str(q))):.9f}".rstrip('0').rstrip('.'), str(q) when
\* Decimal raises.
normalize_quantity_for_transaction_id(q) ==
    LET d == ParseDecimal(PyStr(q))
    IN IF ~d.ok THEN PyStr(q)
       ELSE RStrip(RStrip(Format9(d.neg, ToDouble(d.int \o d.frac, Len(d.frac))),
                          "0"), ".")

\* The quantities of the candidates below with their normalized texts, worked
\* out once.
CandidateQuantities ==
    {"5", "5.0", "2.5", "0", "'0'", "'0.0'", "'0.00'", "''", "None"}
NormalizedQuantity ==
    [q \in CandidateQuantities |-> normalize_quantity_for_transaction_id(q)]

\* Decimal(str(q)).quantize(9 places, ROUND_HALF_UP) as a float; float(q) or
\* 0.0 when the value is no number.
preserve_quantity_precision(q) ==
    CASE q \in {"5", "5.0", "'5'", "'5.0'"}            -> "5.0"
      [] q \in {"2.5", "'2.5'"}                        -> "2.5"
      [] OTHER                                         -> "0.0"

\* reverse_unit_map.get(unit, reverse_unit_map.get(unit.lower(), unit.upper()));
\* the default argument is evaluated first, so None raises AttributeError.
convert_unit(unit) ==
    CASE unit = "None" -> "raise"
      [] unit = "kg"   -> "KG"
      [] unit = "L"    -> "LT"
      [] unit = ""     -> ""
      [] OTHER         -> unit

\* ------------------------------------------------------------- candidates
Addition(name, lot, vessel, qty, unit) ==
    [ingredient_name |-> name, lot_number |-> lot, vessel_code |-> vessel,
     batch_number |-> name \o "_" \o lot, quantity |-> qty, unit |-> unit]

CandA     == Addition("B_Flour", "LOT1", "V1", "5", "kg")
CandB     == Addition("P_Sugar", "LOT2", "V2", "2.5", "kg")
CandZero  == Addition("B_Flour", "LOT1", "V1", "0", "kg")
CandZeroS == Addition("B_Flour", "LOT1", "V1", "'0'", "kg")
CandZeroF == Addition("B_Flour", "LOT1", "V1", "'0.0'", "kg")
CandBlank == Addition("B_Flour", "LOT1", "V1", "''", "kg")
CandNone  == Addition("B_Flour", "LOT1", "V1", "None", "kg")
CandZ00   == Addition("B_Flour", "LOT1", "V1", "'0.00'", "kg")
CandNoUom == Addition("P_Sugar", "LOT2", "V2", "2.5", "None")

\* Source listings a scheduled run may fetch (the same listing on every run).
Feeds == { <<CandA, CandB>>, <<CandZero, CandA>>, <<CandZ00, CandB>>,
           <<CandA, CandNoUom, CandB>>, <<CandA, CandA>> }

\* batch_data values dispatch_single_batch_to_jde may be called with.
BatchData == {CandA, CandZero, CandZeroS, CandZeroF, CandBlank, CandNone}

\* batch_data values dispatch_prepared_payload_to_jde may be called with.
PreparedData == {CandA, CandZero}

\* f"{ingredient_name}_{lot_number}_{vessel_code}_{normalized_quantity}"
\* A key that the mapping does not have; None is written "None", which is also
\* the text an f-string gives it.
Absent == "<absent>"

\* mapping.get(key, default): the default only when the key is absent.
Get(v, default) == IF v = Absent THEN default ELSE v

\* f"{name}_{get('lot_number', '')}_{get('vessel_code', '')}_{normalized}"
unique_transaction_id(c) ==
    c.ingredient_name \o "_" \o Get(c.lot_number, "") \o "_"
        \o Get(c.vessel_code, "") \o "_"
        \o NormalizedQuantity[c.quantity]

AllCands == BatchData \cup {CandB, CandZ00, CandNoUom}
Uids == {unique_transaction_id(c) : c \in AllCands}

\* Document ids of the source behind an addition: the action, the ingredient,
\* the lot entry, the ingredient batch and the vessel.
SourceIds(c) ==
    [action_id |-> "A1",
     ingredient_id |-> "I:" \o c.ingredient_name,
     lot_id |-> "L:" \o c.lot_number,
     batch_id |-> "B:" \o c.batch_number,
     vessel_id |-> "V:" \o c.vessel_code]

\* ------------------------------------------------ parse_bakery_system_json
\* One flat record per addition of the listing; zero and null quantities are
\* dropped, the key names the addition (here: its position in the listing).
RECURSIVE ParseFrom(_, _)
ParseFrom(feed, k) ==
    IF k > Len(feed) THEN <<>>
    ELSE LET c == feed[k]
             rec == [key |-> k,
                     action_id |-> SourceIds(c).action_id,
                     ingredient_id |-> SourceIds(c).ingredient_id,
                     lot_id |-> SourceIds(c).lot_id,
                     vessel_id |-> SourceIds(c).vessel_id,
                     ingredient_name |-> c.ingredient_name,
                     addition_unit |-> c.unit,
                     lot_number |-> c.lot_number,
                     vessel_code |-> c.vessel_code,
                     change_value |-> preserve_quantity_precision(c.quantity),
                     unique_transaction_id |-> unique_transaction_id(c)]
         IN IF IsZeroOrNull(c.quantity) THEN ParseFrom(feed, k + 1)
            ELSE <<rec>> \o ParseFrom(feed, k + 1)

parse_bakery_system_json(feed) == ParseFrom(feed, 1)

\* ----------------------------------------------------------------- ledger
\* ingredient_submitted_status: a list of rows; the UNIQUE constraint on
\* unique_transaction_id is kept by the ON CONFLICT clause of the upsert.
RowIdx(rows, uid) == {i \in 1..Len(rows) : rows[i].unique_transaction_id = uid}

FirstIdx(S) == CHOOSE i \in S : \A j \in S : i <= j

\* Variant: on conflict the whole row is replaced by the new values.
Upsert_ReplaceRow(rows, row) ==
    LET hit == RowIdx(rows, row.unique_transaction_id)
    IN IF hit = {} THEN Append(rows, row)
       ELSE [i \in 1..Len(rows) |-> IF i \in hit THEN row ELSE rows[i]]

\* Variant: a plain INSERT, without the ON CONFLICT clause.
Upsert_InsertOnly(rows, row) == Append(rows, row)

\* INSERT ... ON CONFLICT (unique_transaction_id) DO UPDATE
\*   SET status_text = EXCLUDED.status_text, status = <status>
Upsert(rows, row) ==
    LET hit == RowIdx(rows, row.unique_transaction_id)
    IN IF hit = {} THEN Append(rows, row)
       ELSE [i \in 1..Len(rows) |->
               IF i \in hit
               THEN [rows[i] EXCEPT !.status = row.status,
                                    !.status_text = row.status_text]
               ELSE rows[i]]

\* Variant: any row of the identity counts, whatever its status.
DagAlreadyDone_AnyRow(rows, uid) == RowIdx(rows, uid) # {}

\* SELECT status ... WHERE unique_transaction_id = %s; fetchone();
\* result and result[0] == 'done'
DagAlreadyDone(rows, uid) ==
    LET hit == RowIdx(rows, uid)
    IN hit # {} /\ rows[FirstIdx(hit)].status = "done"

\* SELECT status ... WHERE unique_transaction_id = %s AND status = 'done'
SingleAlreadyDone(rows, uid) ==
    \E i \in RowIdx(rows, uid) : rows[i].status = "done"

\* The VALUES tuple of the INSERT: post_data_to_jde takes it from the parsed
\* item, the interactive paths from batch_data (lot_id is batch_data['batch_id'],
\* vessel_id is not among the columns).
LedgerRow(o, it, uid, status, text) ==
    IF o = "dag"
    THEN [unique_transaction_id |-> uid, status |-> status, status_text |-> text,
          action_id |-> it.action_id, ingredient_id |-> it.ingredient_id,
          lot_id |-> it.lot_id, vessel_id |-> it.vessel_id,
          vessel_code |-> it.vessel_code,
          ingredient_name |-> it.ingredient_name,
          addition_unit |-> it.addition_unit]
    ELSE [unique_transaction_id |-> uid, status |-> status, status_text |-> text,
          action_id |-> SourceIds(it).action_id,
          ingredient_id |-> SourceIds(it).ingredient_id,
          lot_id |-> SourceIds(it).batch_id, vessel_id |-> "None",
          vessel_code |-> it.vessel_code,
          ingredient_name |-> it.ingredient_name,
          addition_unit |-> it.unit]

NoRow == [unique_transaction_id |-> "", status |-> "", status_text |-> "",
          action_id |-> "", ingredient_id |-> "", lot_id |-> "",
          vessel_id |-> "", vessel_code |-> "", ingredient_name |-> "",
          addition_unit |-> ""]

\* ------------------------------------------------------------ destination
\* Longest status_text the dispatch paths keep.
StatusTextLimit == 699

RECURSIVE Repeat(_, _)
Repeat(s, n) ==
    IF n = 0 THEN ""
    ELSE IF n % 2 = 0 THEN LET h == Repeat(s, n \div 2) IN h \o h
    ELSE s \o Repeat(s, n - 1)

\* Bodies of the destination: a short JSON document, and texts of one character
\* more than the limit and of twice the limit.
ShortJson == "{'ok': 1}"
OverLimitText == Repeat("x", StatusTextLimit + 1)
LongText == Repeat("error ", StatusTextLimit)

NoResp == [code |-> 0, json |-> FALSE, body |-> ""]
\* Answers of the destination: status code, whether the body is JSON, and the
\* body (for a JSON body: str() of the parsed document).
Responses == { [code |-> 200, json |-> TRUE, body |-> ShortJson],
               [code |-> 200, json |-> FALSE, body |-> OverLimitText],
               [code |-> 201, json |-> TRUE, body |-> ShortJson],
               [code |-> 500, json |-> FALSE, body |-> LongText] }
IsSuccess(r) == r.code \in {200, 201}

\* s[:n] of Python.
Slice(s, n) == IF Len(s) <= n THEN s ELSE SubSeq(s, 1, n)

\* Variant: the text is kept whole.
StatusText_Uncut(r) == r.body

\* status_text: str(response.json()), or response.text when the body is not
\* JSON, cut with [:699].
StatusText(r) == Slice(r.body, StatusTextLimit)

\* ------------------------------------------------------------ HTTP client
\* Requests of one call are counted up to MaxSent; past it the count stays.
MaxSent == 6
max_retries == 3
base_delay == 30

RECURSIVE Pow2(_)
Pow2(n) == IF n = 0 THEN 1 ELSE 2 * Pow2(n - 1)

Min(a, b) == IF a < b THEN a ELSE b

\* What requests.get/post/put/delete gives: a response with a status code and
\* a body, or a transport failure raised as an exception.  body names the
\* shape of response.text; wait is metadata.wait of a body that has one;
\* detail is the content: the rows of a success, the message of an error.
Response(code, body, wait, detail) ==
    [kind |-> "response", code |-> code, body |-> body, wait |-> wait,
     detail |-> detail]
TransportFailure(kind) ==
    [kind |-> kind, code |-> 0, body |-> "", wait |-> 0, detail |-> ""]
NoAnswer == [kind |-> "none", code |-> 0, body |-> "", wait |-> 0, detail |-> ""]

\* Body shapes: "object" a JSON object or non-empty list of data, "emptylist"
\* the text [], "text" not JSON, "nometa" a JSON object without metadata,
\* "wait" a JSON object with a numeric metadata.wait, "errorlist" a JSON list
\* of error objects, "msg" a JSON object with a msg field.
Answers ==
    { Response(200, "object", 0, "rows"),
      Response(201, "object", 0, "created"),
      Response(200, "emptylist", 0, ""),
      Response(200, "text", 0, "<html>"),
      Response(429, "text", 0, "Too Many Requests"),
      Response(429, "nometa", 0, ""),
      Response(429, "wait", 5, ""),
      Response(429, "wait", 0, ""),
      Response(423, "wait", 7, ""),
      Response(429, "errorlist", 0, "rate limited"),
      Response(400, "msg", 0, "duplicate value"),
      Response(404, "text", 0, "not found"),
      Response(500, "text", 0, "server error"),
      TransportFailure("Timeout"),
      TransportFailure("ConnectionError") }

\* A 429 whose body carries no wait hint.
NoHint429 == { Response(429, "text", 0, "Too Many Requests"),
               Response(429, "nometa", 0, "") }

\* json.loads(response.text).get("metadata", {}).get("wait", default): the
\* exception it raises, or the number it yields.
WaitHint(a, default) ==
    CASE a.body = "text"      -> [raised |-> "JSONDecodeError", wait |-> 0]
      [] a.body = "errorlist" -> [raised |-> "AttributeError", wait |-> 0]
      [] a.body = "wait"      -> [raised |-> "none", wait |-> a.wait]
      [] OTHER                -> [raised |-> "none", wait |-> default]

\* The arguments of a call: method, url, headers, payload, params.
Request(method, url, payload, params) ==
    [method |-> method, url |-> url, headers |-> "json+token",
     payload |-> payload, params |-> params]
NoRequest == Request("", "", "", "")
RetryRequests == { Request("GET", "/ingredients", "", "size=10"),
                   Request("POST", "/batch-actions", "{action}", ""),
                   Request("PATCH", "/batch-actions", "{action}", "") }
BakeryOpsRequest == Request("GET", "/inventory-movements", "", "")
BakerySystemRequest == Request("GET", "/outlets/ingredients", "", "")

\* What the caller gets: a value, None, or a raised Exception with its text.
Pending == [kind |-> "pending", detail |-> ""]
ReturnNone == [kind |-> "None", detail |-> ""]
ReturnValue(d) == [kind |-> "value", detail |-> d]
Raise(d) == [kind |-> "raise", detail |-> d]

HttpIdle ==
    [fn |-> "none", args |-> NoRequest, pc |-> "idle", retry_count |-> 0,
     last |-> NoAnswer, wait |-> 0, sent |-> 0, lastSent |-> NoRequest,
     result |-> Pending]

HttpCall(fn, args) ==
    [HttpIdle EXCEPT !.fn = fn, !.args = args, !.pc = "request"]

\* The request goes out with the arguments of the call and is answered by a.
Issue(h, a) ==
    [h EXCEPT !.sent = Min(h.sent + 1, MaxSent), !.lastSent = h.args,
              !.last = a]
Done(h, res) == [h EXCEPT !.pc = "done", !.result = res, !.wait = 0]
Sleep(h, seconds) == [h EXCEPT !.pc = "sleep", !.wait = seconds]

\* retry_request after its request was answered by a.  An exception raised
\* inside the try block, the Exception of the 400 branch included, is caught
\* by the function's own except clauses, which return None.
retry_request(h, a) ==
    IF a.kind # "response" THEN Done(h, ReturnNone)
    ELSE IF a.code \in {200, 201} THEN
        IF a.body \in {"text", "emptylist"} THEN Done(h, ReturnNone)
        ELSE Done(h, ReturnValue(a.detail))
    ELSE IF a.code \in {429, 423} THEN
        LET w == WaitHint(a, 10) IN
        IF w.raised = "AttributeError" THEN Done(h, ReturnNone)
        ELSE IF w.raised = "none" /\ w.wait > 0 THEN Sleep(h, w.wait)
        ELSE Sleep(h, 10)
    ELSE Done(h, ReturnNone)

\* while retry_count <= max_retries of the two loops, and what follows the
\* loop when the test fails.
Loop(h, after) ==
    IF h.retry_count <= max_retries THEN [h EXCEPT !.pc = "request", !.wait = 0]
    ELSE Done(h, after)

Exhausted == Raise("Failed to fetch data after 4 attempts")

\* fetch_from_bakery_ops_api after its request was answered by a.  The error
\* response.json() raises on a body that is not JSON is a RequestException.
fetch_from_bakery_ops_api(h, a) ==
    IF a.kind # "response" \/ (a.code = 200 /\ a.body = "text") THEN
        IF h.retry_count < max_retries
        THEN Sleep([h EXCEPT !.retry_count = @ + 1],
                   base_delay * Pow2(h.retry_count))
        ELSE Done(h, Raise("Failed after 4 attempts"))
    ELSE IF a.code = 200 THEN Done(h, ReturnValue(a.detail))
    ELSE IF a.code = 429 THEN
        Sleep([h EXCEPT !.retry_count = @ + 1], base_delay * Pow2(h.retry_count))
    ELSE Done(h, Raise(a.detail))

\* get_data_from_bakery_system after its request was answered by a.
get_data_from_bakery_system(h, a) ==
    IF a.kind = "Timeout" THEN
        IF h.retry_count + 1 <= max_retries
        THEN Sleep([h EXCEPT !.retry_count = @ + 1], 5)
        ELSE Done([h EXCEPT !.retry_count = @ + 1], ReturnNone)
    ELSE IF a.kind # "response" THEN Done(h, ReturnNone)
    ELSE IF a.code \in {200, 201} THEN
        IF a.body = "text" THEN Done(h, ReturnNone)
        ELSE Done(h, ReturnValue(a.detail))
    ELSE IF a.code = 429 THEN
        LET w == WaitHint(a, 0)
            n == [h EXCEPT !.retry_count = @ + 1] IN
        IF w.raised # "none" THEN Loop(n, ReturnNone)
        ELSE IF w.wait > 0 THEN Sleep(n, w.wait)
        ELSE Sleep(n, 60)
    ELSE Done(h, ReturnNone)

\* ----------------------------------------------------------- response cache
TIMEOUT == 3600
\* The clock of the database stops at MaxNow.
MaxNow == 3601
CacheKeys == {"k1", "k2"}

\* A Python value that json can dump: its kind and, for a list, the JSON
\* texts of its elements.
Value(kind, elems) == [kind |-> kind, elems |-> elems]
PyNone == Value("None", <<>>)
Object == Value("dict", <<"{\"id\": 1}">>)
EmptyList == Value("list", <<>>)
Pair == Value("list", <<"1", "2">>)
Single == Value("list", <<"{\"id\": 1}">>)
NestedEmpty == Value("list", <<"[]">>)

RECURSIVE Join(_)
Join(elems) ==
    IF elems = <<>> THEN ""
    ELSE IF Len(elems) = 1 THEN elems[1]
    ELSE elems[1] \o ", " \o Join(Tail(elems))

json_dumps(v) ==
    CASE v.kind = "list" -> "[" \o Join(v.elems) \o "]"
      [] v.kind = "None" -> "null"
      [] OTHER -> v.elems[1]

\* json.loads on the texts that occur: the value, or JSONDecodeError.
json_loads(t) ==
    CASE t = "{\"id\": 1}"   -> [ok |-> TRUE, value |-> Object]
      [] t = "[]"            -> [ok |-> TRUE, value |-> EmptyList]
      [] t = "[1, 2]"        -> [ok |-> TRUE, value |-> Pair]
      [] t = "[{\"id\": 1}]" -> [ok |-> TRUE, value |-> Single]
      [] t = "[[]]"          -> [ok |-> TRUE, value |-> NestedEmpty]
      [] t = "null"          -> [ok |-> TRUE, value |-> PyNone]
      [] t \in {"1", "2"}    -> [ok |-> TRUE, value |-> Value("int", <<t>>)]
      [] OTHER               -> [ok |-> FALSE, value |-> PyNone]

\* What retry_request_lru hands to set_in_lru_cache: not None, not [].
CacheableResponses == {Object, Pair, Single, NestedEmpty}
\* Text in the response column that no json.dumps produced.
ForeignTexts == {"", "not json"}

\* A row of app_requests_lru_cache under a key: the response text and the
\* timestamp of its insertion.
NoEntry == [present |-> FALSE, response |-> "", timestamp |-> 0]
CacheRow(text, now) == [present |-> TRUE, response |-> text, timestamp |-> now]
EmptyCache == [now |-> 0, rows |-> [k \in CacheKeys |-> NoEntry]]

\* WHERE timestamp > NOW() - INTERVAL '3600 seconds'
Fresh_Inclusive(row, now) == row.timestamp >= now - TIMEOUT
Fresh(row, now) == row.timestamp > now - TIMEOUT

\* DELETE FROM app_requests_lru_cache WHERE cache_key = key
delete_from_lru_cache(c, key) == [c EXCEPT !.rows[key] = NoEntry]

\* INSERT ... VALUES (key, json.dumps(normalized), NOW()) ON CONFLICT
\* (cache_key) DO NOTHING; a single-element list is stored as its element.
set_in_lru_cache(c, key, response) ==
    LET normalized == IF response.kind = "list" /\ Len(response.elems) = 1
                      THEN json_loads(response.elems[1]).value
                      ELSE response
    IN  IF c.rows[key].present THEN c
        ELSE [c EXCEPT !.rows[key] = CacheRow(json_dumps(normalized), c.now)]

\* get_from_lru_cache(key): the value returned and the table afterwards.
get_from_lru_cache(c, key) ==
    LET row == c.rows[key]
        parsed == json_loads(row.response)
    IN  IF ~(row.present /\ Fresh(row, c.now))
        THEN [ret |-> PyNone, cache |-> c]
        ELSE IF ~parsed.ok
        THEN [ret |-> PyNone, cache |-> delete_from_lru_cache(c, key)]
        ELSE IF parsed.value = EmptyList
        THEN [ret |-> PyNone, cache |-> delete_from_lru_cache(c, key)]
        ELSE [ret |-> parsed.value, cache |-> c]

\* What retry_request returns for a 200 whose body parses to v; PyNone stands
\* for every failure of the request.
RetryResult(v) == IF v = EmptyList THEN PyNone ELSE v

\* Bodies the server answers a request with, and a failed request.
LruAnswers == {Object, Pair, Single, NestedEmpty, EmptyList, PyNone}

\* if result is not None and method == 'GET', and result is not an empty list
Cacheable_Any(result, method) == method = "GET"
Cacheable(result, method) ==
    result # PyNone /\ method = "GET" /\ result # EmptyList

\* retry_request_lru(url, ..., method) under cache key key, the server
\* answering v if it is asked: the value returned, whether the server was
\* contacted, and the table afterwards.
retry_request_lru(c, key, method, v) ==
    LET got == IF method = "GET" THEN get_from_lru_cache(c, key)
               ELSE [ret |-> PyNone, cache |-> c]
        result == RetryResult(v)
    IN  IF method = "GET" /\ got.ret # PyNone /\ got.ret # EmptyList
        THEN [ret |-> got.ret, contacted |-> FALSE, cache |-> got.cache]
        ELSE [ret |-> result, contacted |-> TRUE,
              cache |-> IF Cacheable(result, method)
                        THEN set_in_lru_cache(got.cache, key, result)
                        ELSE got.cache]

\* ------------------------------------------------------- _create_cache_key
\* A Python value of a query or body map: a scalar with the text str() gives
\* it, or a dict with its items in insertion order.
Scalar(t) == [kind |-> "scalar", text |-> t, items |-> <<>>]
Dict(items) == [kind |-> "dict", text |-> "", items |-> items]
Item(k, v) == [key |-> k, val |-> v]

\* The order of the keys that occur.
KeyOrder == <<"a", "b", "x", "y">>
Rank(k) == CHOOSE i \in 1..Len(KeyOrder) : KeyOrder[i] = k

RECURSIVE InsertByKey(_, _)
InsertByKey(it, sorted) ==
    IF sorted = <<>> THEN <<it>>
    ELSE IF Rank(it.key) < Rank(Head(sorted).key) THEN <<it>> \o sorted
    ELSE <<Head(sorted)>> \o InsertByKey(it, Tail(sorted))

RECURSIVE SortItems(_)
SortItems(items) ==
    IF items = <<>> THEN <<>>
    ELSE InsertByKey(Head(items), SortItems(Tail(items)))

\* sorted(d.items()) and sort_keys=True
SortedItems_AsInserted(items) == items
SortedItems(items) == SortItems(items)

RECURSIVE normalize_dict(_)
normalize_dict(d) ==
    IF d.kind = "dict"
    THEN LET sorted == SortedItems(d.items)
         IN  Dict([i \in 1..Len(sorted) |->
                      Item(sorted[i].key, normalize_dict(sorted[i].val))])
    ELSE Scalar(d.text)

\* json.dumps(v, sort_keys=True, separators=(',', ':'))
RECURSIVE DumpSorted(_)
RECURSIVE DumpItems(_)
DumpItems(items) ==
    IF items = <<>> THEN ""
    ELSE "\"" \o Head(items).key \o "\":" \o DumpSorted(Head(items).val)
         \o (IF Len(items) > 1 THEN "," ELSE "") \o DumpItems(Tail(items))
DumpSorted(v) ==
    IF v.kind = "dict" THEN "{" \o DumpItems(SortedItems(v.items)) \o "}"
    ELSE "\"" \o v.text \o "\""

\* all_params.update(params): the value of a key already there is replaced in
\* place, a new key is appended.
RECURSIVE Update(_, _)
Update(items, more) ==
    IF more = <<>> THEN items
    ELSE LET it == Head(more)
             hit == {i \in 1..Len(items) : items[i].key = it.key}
         IN  Update(IF hit = {} THEN Append(items, it)
                    ELSE [i \in 1..Len(items) |->
                             IF i \in hit THEN it ELSE items[i]],
                    Tail(more))

\* A url: scheme, host and path, and the items of its query string.
Url(base, query) == [base |-> base, query |-> query]

\* sha256(text).hexdigest(): a function of the text, here the text itself.
Sha256Hex(text) == text

_create_cache_key(url, params, payload) ==
    LET all_params == Update(url.query, params.items)
        normalized_params == IF all_params # <<>>
                             THEN normalize_dict(Dict(all_params)) ELSE Dict(<<>>)
        normalized_payload == IF payload.items # <<>>
                              THEN normalize_dict(payload) ELSE Dict(<<>>)
    IN  Sha256Hex(url.base \o "||" \o DumpSorted(normalized_params)
                  \o "||" \o DumpSorted(normalized_payload))

\* ------------------------------------------ submit_ingredient_batch_action
\* Rows of the cardex rowset: the batch name made of F4111_LITM and
\* F4111_LOTN, and the transaction number F4111_DOC.
CardexRow(batch_name, doc) == [batch_name |-> batch_name, doc |-> doc]
CardexRows == {CardexRow(b, t) : b \in {"Flour_L1", "Flour_L2"}, t \in {"D1", "D2"}}
Rowsets == {<<r>> : r \in CardexRows} \cup {<<r, q>> : r \in CardexRows, q \in CardexRows}

\* A cached read of the run: present with the listing it stored, or absent.
NoListing == [present |-> FALSE, listing |-> {}]
Listing(l) == [present |-> TRUE, listing |-> l]

\* The inventory service (its batches and the transaction numbers in the
\* notes of its batch actions), the two cached reads, and the run.
CardexIdle ==
    [pc |-> "idle", rows |-> <<>>, idx |-> 0, post_data |-> 0,
     batches |-> {}, docs |-> {},
     batch_read |-> NoListing, movement_read |-> NoListing]

\* retry_request_lru GET: the cached listing on a hit; on a miss the listing
\* of the service, stored unless it is empty.
CachedGet(entry, listing) ==
    IF entry.present THEN [data |-> entry.listing, entry |-> entry]
    ELSE [data |-> listing,
          entry |-> IF listing = {} THEN NoListing ELSE Listing(listing)]

\* One pass of the loop of submit_ingredient_batch_action over row r.
\* fetch_or_create_ingredient_batch reads the batches through the cache and
\* POSTs a new batch when the name is not in the listing;
\* check_transaction_exists_in_batch_actions reads the movements through the
\* cache; post_batch_action_payload POSTs the action.  The call of
\* invalidate_ingredient_lru_cache that follows passes outlet_id and
\* bakeryops_token, which the function does not take: it raises TypeError
\* before it removes anything, and nothing in the loop catches it.
SubmitRow(c, r) ==
    LET batch_get == CachedGet(c.batch_read, c.batches)
        is_new_batch == r.batch_name \notin batch_get.data
        batches == IF is_new_batch THEN c.batches \cup {r.batch_name}
                   ELSE c.batches
        movement_get == IF is_new_batch
                        THEN [data |-> {}, entry |-> c.movement_read]
                        ELSE CachedGet(c.movement_read, c.docs)
        transaction_exists == ~is_new_batch /\ r.doc \in movement_get.data
        read == [c EXCEPT !.batch_read = batch_get.entry,
                          !.movement_read = movement_get.entry,
                          !.batches = batches]
    IN  IF is_new_batch \/ ~transaction_exists
        THEN [read EXCEPT !.docs = @ \cup {r.doc}, !.post_data = @ + 1,
                          !.pc = "raised"]
        ELSE IF c.idx < Len(c.rows)
        THEN [read EXCEPT !.idx = @ + 1]
        ELSE [read EXCEPT !.pc = "returned"]

\* ------------------------------------------------------------------ state
VARIABLES
    feed,       \* the source listing of the scheduled runs
    ledger,     \* committed rows of ingredient_submitted_status
    tx,         \* per runner: the row written and not yet committed
    pc,         \* per runner: position in its invocation
    op,         \* per runner: "dag", "single" or "prepared"
    items,      \* per runner: the items of the invocation
    idx,        \* per runner: index of the item in progress
    resp,       \* per runner: the response of the POST of the item
    resp_arr,   \* per runner: result list of post_data_to_jde
    ret,        \* per runner: result dict of an interactive dispatch
    posts,      \* destination: POSTs received, per identity
    delivered,  \* destination: POSTs answered 200/201, per identity
    lastUpsert, \* per identity: status written by the last committed upsert
    runs,       \* invocations started so far
    call,       \* a call of a pure function: name, arguments, result
    http,       \* a call of a retrying request function
    cache,      \* rows of app_requests_lru_cache, per cache key
    cardex      \* a run of submit_ingredient_batch_action and its service

dispatchVars == <<feed, ledger, tx, pc, op, items, idx, resp, resp_arr, ret,
                  posts, delivered, lastUpsert, runs>>
\* What the dispatch paths do not touch.
otherVars == <<call, http, cache, cardex>>
vars == <<dispatchVars, otherVars>>

NoCall == [fn |-> "none", args |-> <<>>, out |-> <<>>]

NoRet == [success |-> FALSE, error |-> "none"]
Terminal == {"idle", "returned", "raised", "aborted"}
CurItem(p) == items[p][idx[p]]
\* item['value']['unique_transaction_id'] of the parsed record on the scheduled
\* path; derived from batch_data inside the function on the interactive paths.
CurUid(p) == IF op[p] = "dag" THEN CurItem(p).unique_transaction_id
             ELSE unique_transaction_id(CurItem(p))

\* Nothing dispatched yet: empty ledger, free runners.
Quiet ==
    /\ ledger = <<>>
    /\ tx = [p \in Procs |-> NoRow]
    /\ pc = [p \in Procs |-> "idle"]
    /\ op = [p \in Procs |-> "none"]
    /\ items = [p \in Procs |-> <<>>]
    /\ idx = [p \in Procs |-> 0]
    /\ resp = [p \in Procs |-> NoResp]
    /\ resp_arr = [p \in Procs |-> <<>>]
    /\ ret = [p \in Procs |-> NoRet]
    /\ posts = [u \in Uids |-> 0]
    /\ delivered = [u \in Uids |-> 0]
    /\ lastUpsert = [u \in Uids |-> "none"]
    /\ runs = 0

\* No pure call, no request and no cached response.
Rest ==
    /\ http = HttpIdle
    /\ cache = EmptyCache
    /\ cardex = CardexIdle

Init ==
    /\ feed \in Feeds
    /\ Quiet
    /\ call = NoCall
    /\ Rest

\* ---------------------------------------------------------------- helpers
Entry(k, tag) == [key |-> k, tag |-> tag]
Failure(e) == [success |-> FALSE, error |-> e]
Success == [success |-> TRUE, error |-> "none"]

\* The row another connection holds uncommitted blocks a write of the same
\* unique_transaction_id until that connection commits or closes.
RowLocked(p, uid) ==
    \E q \in Procs \ {p} : tx[q] # NoRow /\ tx[q].unique_transaction_id = uid

\* Variant: the failure of the write is swallowed and success is returned.
OnDbError_Swallowed(o) == [pc |-> "returned", ret |-> Success]

\* What the caller gets when the ledger write raises: post_data_to_jde has no
\* except clause (the exception leaves the function through try/finally), the
\* interactive paths catch it and return a failure dict.
OnDbError(o) == IF o = "dag" THEN [pc |-> "raised", ret |-> NoRet]
                ELSE IF o = "prepared"
                THEN [pc |-> "returned",
                      ret |-> Failure("Network or database error")]
                ELSE [pc |-> "returned",
                      ret |-> Failure("Database or network error")]

\* What the caller gets when requests.post raises: the same try statement
\* encloses the POST and the ledger write.
OnPostError(o) == OnDbError(o)

\* Status written for a response ('done' branch on 200/201, 'error' branch of
\* post_data_to_jde otherwise).
StatusFor(r) == IF IsSuccess(r) THEN "done" ELSE "error"

\* The invocation is over: its locals are gone, the caller holds the result
\* (resp_arr of post_data_to_jde, the dict of an interactive dispatch) when
\* the function returned, and nothing when it raised or was killed.
End(p, state, r, arr) ==
    /\ pc' = [pc EXCEPT ![p] = state]
    /\ ret' = [ret EXCEPT ![p] = r]
    /\ resp_arr' = [resp_arr EXCEPT ![p] = arr]
    /\ items' = [items EXCEPT ![p] = <<>>]
    /\ idx' = [idx EXCEPT ![p] = 0]
    /\ resp' = [resp EXCEPT ![p] = NoResp]

\* Move on inside the invocation.
Goto(p, state) ==
    /\ pc' = [pc EXCEPT ![p] = state]
    /\ UNCHANGED <<ret, resp_arr, items, idx, resp>>

\* `continue` / end of the loop body of post_data_to_jde: next item, or
\* return resp_arr.
NextItem(p, entries) ==
    IF idx[p] < Len(items[p])
    THEN /\ resp_arr' = [resp_arr EXCEPT ![p] = resp_arr[p] \o entries]
         /\ resp' = [resp EXCEPT ![p] = NoResp]
         /\ idx' = [idx EXCEPT ![p] = idx[p] + 1]
         /\ pc' = [pc EXCEPT ![p] = "check"]
         /\ UNCHANGED <<ret, items>>
    ELSE End(p, "returned", NoRet, resp_arr[p] \o entries)

\* Start of an invocation on a free runner.
Begin(p, o, its, state, r) ==
    /\ pc[p] \in Terminal
    /\ runs < MaxRuns
    /\ runs' = runs + 1
    /\ op' = [op EXCEPT ![p] = o]
    /\ resp_arr' = [resp_arr EXCEPT ![p] = <<>>]
    /\ resp' = [resp EXCEPT ![p] = NoResp]
    /\ ret' = [ret EXCEPT ![p] = r]
    /\ pc' = [pc EXCEPT ![p] = state]
    /\ items' = [items EXCEPT ![p] = IF state = "check" THEN its ELSE <<>>]
    /\ idx' = [idx EXCEPT ![p] = IF state = "check" THEN 1 ELSE 0]
    /\ UNCHANGED <<otherVars, feed, ledger, tx, posts, delivered, lastUpsert>>

\* ------------------------------------------------- post_data_to_jde (DAG)
\* post_to_jde_task: parse output of the listing, then the loop over items.
StartDag(p) ==
    /\ pc[p] \in Terminal
    /\ Begin(p, "dag", parse_bakery_system_json(feed),
             IF parse_bakery_system_json(feed) = <<>> THEN "returned" ELSE "check",
             NoRet)

\* Loop body up to the POST: INFO entry, status SELECT, unit conversion,
\* required-field test.
DagCheck(p) ==
    /\ pc[p] = "check" /\ op[p] = "dag"
    /\ LET item == CurItem(p)
           info == Entry(item.key, "INFO")
       IN IF DagAlreadyDone(ledger, item.unique_transaction_id)
          THEN NextItem(p, <<info, Entry(item.key, "ERROR_done")>>)
          ELSE IF convert_unit(item.addition_unit) = "raise"
          THEN End(p, "raised", NoRet, <<>>)
          ELSE IF \/ item.change_value = "0.0"
                  \/ item.addition_unit = ""
                  \/ item.ingredient_name = ""
          THEN NextItem(p, <<info, Entry(item.key, "ERROR_empty")>>)
          ELSE /\ pc' = [pc EXCEPT ![p] = "post"]
               /\ resp_arr' = [resp_arr EXCEPT ![p] = Append(resp_arr[p], info)]
               /\ UNCHANGED <<ret, items, idx, resp>>
    /\ UNCHANGED <<otherVars, feed, ledger, tx, op, posts, delivered, lastUpsert, runs>>

\* ------------------------------------------------------ interactive paths
\* dispatch_single_batch_to_jde up to the database connection: required
\* fields, zero/null quantity.
StartSingle(p, c) ==
    IF Falsy(c.ingredient_name) \/ Falsy(c.quantity) \/ Falsy(c.unit)
    THEN Begin(p, "single", <<c>>, "returned", Failure("Missing required fields"))
    ELSE IF IsZeroOrNull(c.quantity)
    THEN Begin(p, "single", <<c>>, "returned", Failure("zero or null quantity"))
    ELSE Begin(p, "single", <<c>>, "check", NoRet)

\* dispatch_prepared_payload_to_jde up to the database connection.
StartPrepared(p, c) ==
    /\ pc[p] \in Terminal
    /\ Begin(p, "prepared", <<c>>, "check", NoRet)

\* s[i:] and s[:i] of a str.
From(s, i) == IF i > Len(s) THEN "" ELSE SubSeq(s, i, Len(s))
StartsWith(s, prefix) ==
    Len(prefix) <= Len(s) /\ Slice(s, Len(prefix)) = prefix

\* s.replace(sub, "", 1): the first occurrence of sub, wherever it is, is
\* removed.
ReplaceFirst(s, sub) ==
    LET at == {i \in 1..Len(s) : StartsWith(From(s, i), sub)}
    IN  IF sub = "" \/ at = {} THEN s
        ELSE LET i == FirstIdx(at)
             IN  Slice(s, i - 1) \o From(s, i + Len(sub))

\* lot_number, else batch_number with "{product_name}_" replaced once; ""
\* when neither gives one.
LotNumber(c) ==
    LET lot_number == Get(c.lot_number, "")
        batch_number == Get(c.batch_number, "")
    IN  IF ~Falsy(lot_number) THEN lot_number
        ELSE IF ~Falsy(batch_number)
        THEN ReplaceFirst(batch_number, c.ingredient_name \o "_")
        ELSE ""

\* bu: "1110" unless the product name starts with a prefix of bu_map.
BranchPlant(product_name) ==
    IF StartsWith(product_name, "B_") THEN "1110"
    ELSE IF StartsWith(product_name, "P_") THEN "1130"
    ELSE IF StartsWith(product_name, "M_") THEN "1120"
    ELSE "1110"

NoPayload == [Branch_Plant |-> "", Item_Number |-> "", Quantity |-> "",
              UM |-> "", LOTN |-> ""]
JdePayload(b, um, lotn) ==
    [Branch_Plant |-> BranchPlant(b.ingredient_name),
     Item_Number |-> b.ingredient_name, Quantity |-> PyStr(b.quantity),
     UM |-> um, LOTN |-> lotn]
Refused(e) == [success |-> FALSE, error |-> e, jde_payload |-> NoPayload]
Built(payload) == [success |-> TRUE, error |-> "none", jde_payload |-> payload]

\* Required fields that are missing or falsy.
MissingFields(b) ==
    \E f \in {"action_id", "ingredient_id", "ingredient_name", "batch_id",
               "quantity", "unit"} : Falsy(Get(b[f], "None"))

\* prepare_jde_payload(batch_data) against the ledger rows: the dict it
\* returns.  It reads the ledger and writes nothing.
prepare_jde_payload(b, rows) ==
    IF MissingFields(b) THEN Refused("Missing required fields")
    ELSE IF IsZeroOrNull(b.quantity) THEN Refused("zero or null quantity")
    ELSE IF SingleAlreadyDone(rows, unique_transaction_id(b))
    THEN Refused("already dispatched")
    ELSE LET converted_unit == IF convert_unit(b.unit) = "" THEN b.unit
                               ELSE convert_unit(b.unit)
             lot_number == IF LotNumber(b) = "" THEN b.batch_id ELSE LotNumber(b)
         IN  Built(JdePayload(b, converted_unit, lot_number))

\* dispatch_single_batch_to_jde(batch_data) against the ledger rows, with the
\* credentials configured, up to its POST: success means the payload is
\* POSTed.
dispatch_single_batch_to_jde(b, rows) ==
    IF MissingFields(b) THEN Refused("Missing required fields")
    ELSE IF IsZeroOrNull(b.quantity) THEN Refused("zero or null quantity")
    ELSE IF SingleAlreadyDone(rows, unique_transaction_id(b))
    THEN Refused("already dispatched")
    ELSE IF convert_unit(b.unit) = "" THEN Refused("Unable to convert unit")
    ELSE IF LotNumber(b) = "" THEN Refused("Unable to determine lot number")
    ELSE Built(JdePayload(b, convert_unit(b.unit), LotNumber(b)))

\* ------------------------------------------- get_streamlined_action_data
\* An ADDITION action of the source: one ingredient with its batches, added in
\* quantity change_value to one vessel of one lot entry.
Batch(id, number) == [batch_id |-> id, batch_number |-> number]
Action(name, unit, batches, lot, vessel, qty) ==
    [productName |-> name, additionUnit |-> unit, batches |-> batches,
     lotNumber |-> lot, vesselCode |-> vessel, change_value |-> qty]

\* The addition as parse_bakery_system_json reads it from the action: the lot
\* label is lot_entry.get("lotNumber", ""), the batches play no part.
AdditionOf(a) ==
    [ingredient_name |-> a.productName, lot_number |-> Get(a.lotNumber, ""),
     vessel_code |-> a.vesselCode, batch_number |-> "",
     quantity |-> a.change_value, unit |-> a.additionUnit]

\* The share of change_value a batch record carries: all of it.
BatchQuantity(a) == a.change_value

\* One record per batch of the ingredient, from the first batch on; the lot
\* label is the batch number with "{ingredient_name}_" replaced once.
RECURSIVE BatchRecords(_, _)
BatchRecords(a, k) ==
    IF k > Len(a.batches) THEN <<>>
    ELSE LET batch_info == a.batches[k]
             lot_number ==
                 IF Falsy(batch_info.batch_number) THEN ""
                 ELSE ReplaceFirst(batch_info.batch_number, a.productName \o "_")
             batch_record ==
                 [action_id |-> "A1",
                  ingredient_id |-> "I:" \o a.productName,
                  ingredient_name |-> a.productName,
                  batch_id |-> batch_info.batch_id,
                  batch_number |-> batch_info.batch_number,
                  lot_number |-> lot_number,
                  quantity |-> IF Falsy(BatchQuantity(a)) THEN "0.0"
                               ELSE preserve_quantity_precision(BatchQuantity(a)),
                  unit |-> a.additionUnit,
                  vessel_code |-> a.vesselCode,
                  unique_transaction_id |->
                      a.productName \o "_" \o lot_number \o "_" \o a.vesselCode
                          \o "_" \o NormalizedQuantity[a.change_value]]
         IN  <<batch_record>> \o BatchRecords(a, k + 1)

get_streamlined_action_data(a) == BatchRecords(a, 1)

\* dispatch_single_batch_to_jde on the records one after another, each POST
\* answered 200 and written to the ledger as 'done': the results in order.
RECURSIVE DispatchAll(_, _, _)
DispatchAll(records, k, rows) ==
    IF k > Len(records) THEN <<>>
    ELSE LET result == dispatch_single_batch_to_jde(records[k], rows)
             row == [unique_transaction_id |-> unique_transaction_id(records[k]),
                     status |-> "done"]
         IN  <<result>> \o DispatchAll(records, k + 1,
                                      IF result.success THEN Upsert(rows, row)
                                      ELSE rows)

\* The ledger after a scheduled run delivered the parsed items.
DoneRows(parsed) ==
    [i \in 1..Len(parsed) |->
        [unique_transaction_id |-> parsed[i].unique_transaction_id,
         status |-> "done"]]

\* Status SELECT of the interactive paths and, for dispatch_single_batch_to_jde,
\* unit conversion and lot number.
IntCheck(p) ==
    /\ pc[p] = "check" /\ op[p] \in {"single", "prepared"}
    /\ LET c == CurItem(p)
       IN IF SingleAlreadyDone(ledger, unique_transaction_id(c))
          THEN End(p, "returned", Failure("already dispatched"), <<>>)
          ELSE IF op[p] = "single" /\ convert_unit(c.unit) = ""
          THEN End(p, "returned", Failure("Unable to convert unit"), <<>>)
          ELSE IF op[p] = "single" /\ LotNumber(c) = ""
          THEN End(p, "returned", Failure("Unable to determine lot number"), <<>>)
          ELSE Goto(p, "post")
    /\ UNCHANGED <<otherVars, feed, ledger, tx, op, posts, delivered, lastUpsert, runs>>

\* ------------------------------------------------------------ shared steps
\* requests.post(url, json=payload) answered by the destination.
Post(p) ==
    /\ pc[p] = "post"
    /\ \E r \in Responses :
         /\ resp' = [resp EXCEPT ![p] = r]
         /\ posts' = [posts EXCEPT ![CurUid(p)] = @ + 1]
         /\ delivered' = [delivered EXCEPT ![CurUid(p)] =
                             IF IsSuccess(r) THEN @ + 1 ELSE @]
         /\ pc' = [pc EXCEPT ![p] =
                     IF op[p] = "dag" \/ IsSuccess(r) THEN "exec" ELSE "respond"]
    /\ UNCHANGED <<otherVars, feed, ledger, tx, op, items, idx, resp_arr, ret,
                   lastUpsert, runs>>

\* requests.post raises (connection error): nothing reaches the destination.
PostRaise(p) ==
    /\ pc[p] = "post"
    /\ End(p, OnPostError(op[p]).pc, OnPostError(op[p]).ret, <<>>)
    /\ UNCHANGED <<otherVars, feed, ledger, tx, op, posts, delivered, lastUpsert, runs>>

\* Interactive paths, response other than 200/201: the error dict is returned,
\* no ledger statement is executed.
IntRespond(p) ==
    /\ pc[p] = "respond"
    /\ End(p, "returned", Failure("JDE API error"), <<>>)
    /\ UNCHANGED <<otherVars, feed, ledger, tx, op, posts, delivered, lastUpsert, runs>>

\* cur.execute(INSERT ... ON CONFLICT ... DO UPDATE): the row is written in the
\* connection's open transaction.
Exec(p) ==
    /\ pc[p] = "exec"
    /\ ~RowLocked(p, CurUid(p))
    /\ tx' = [tx EXCEPT ![p] = LedgerRow(op[p], CurItem(p), CurUid(p),
                                         StatusFor(resp[p]),
                                         StatusText(resp[p]))]
    /\ Goto(p, "commit")
    /\ UNCHANGED <<otherVars, feed, ledger, op, posts, delivered, lastUpsert, runs>>

\* cur.execute raises (connection lost, statement error).
ExecFail(p) ==
    /\ pc[p] = "exec"
    /\ End(p, OnDbError(op[p]).pc, OnDbError(op[p]).ret, <<>>)
    /\ UNCHANGED <<otherVars, feed, ledger, tx, op, posts, delivered, lastUpsert, runs>>

\* conn.commit() and the rest of the branch: result entries and next item on
\* the scheduled path (response.json() raises on a body that is not JSON),
\* the success dict on the interactive paths.
Commit(p) ==
    /\ pc[p] = "commit"
    /\ ledger' = Upsert(ledger, tx[p])
    /\ lastUpsert' = [lastUpsert EXCEPT ![tx[p].unique_transaction_id] =
                         tx[p].status]
    /\ tx' = [tx EXCEPT ![p] = NoRow]
    /\ IF op[p] = "dag"
       THEN IF IsSuccess(resp[p])
            THEN IF resp[p].json
                 THEN NextItem(p, <<Entry(CurItem(p).key, "info_posted"),
                                    Entry(CurItem(p).key, "response")>>)
                 ELSE End(p, "raised", NoRet, <<>>)
            ELSE NextItem(p, <<Entry(CurItem(p).key, "ERROR"),
                               Entry(CurItem(p).key, "api_ERROR")>>)
       ELSE End(p, "returned", Success, <<>>)
    /\ UNCHANGED <<otherVars, feed, op, posts, delivered, runs>>

\* conn.commit() raises: the open transaction is lost when the connection is
\* closed in the finally clause.
CommitFail(p) ==
    /\ pc[p] = "commit"
    /\ tx' = [tx EXCEPT ![p] = NoRow]
    /\ End(p, OnDbError(op[p]).pc, OnDbError(op[p]).ret, <<>>)
    /\ UNCHANGED <<otherVars, feed, ledger, op, posts, delivered, lastUpsert, runs>>

\* The process running the invocation is killed (crash, task timeout); the
\* database drops its open transaction.
Abort(p) ==
    /\ pc[p] \notin Terminal
    /\ tx' = [tx EXCEPT ![p] = NoRow]
    /\ End(p, "aborted", NoRet, <<>>)
    /\ UNCHANGED <<otherVars, feed, ledger, op, posts, delivered, lastUpsert, runs>>

\* ---------------------------------------------------------- specifications
Step(p) ==
    \/ StartDag(p)
    \/ \E c \in BatchData : StartSingle(p, c)
    \/ \E c \in PreparedData : StartPrepared(p, c)
    \/ DagCheck(p)
    \/ IntCheck(p)
    \/ Post(p)
    \/ PostRaise(p)
    \/ IntRespond(p)
    \/ Exec(p)
    \/ ExecFail(p)
    \/ Commit(p)
    \/ CommitFail(p)
    \/ Abort(p)

\* Two runners, any interleaving of their steps.
Next == \E p \in Procs : Step(p)

Spec == Init /\ [][Next]_vars

\* Invocations one after another: a runner steps only while no other runner
\* is inside an invocation.
Alone(p) == \A q \in Procs \ {p} : pc[q] \in Terminal

SeqNext ==
    \E p \in Procs :
        \/ Alone(p) /\ StartDag(p)
        \/ Alone(p) /\ \E c \in BatchData : StartSingle(p, c)
        \/ Alone(p) /\ \E c \in PreparedData : StartPrepared(p, c)
        \/ Alone(p) /\ DagCheck(p)
        \/ Alone(p) /\ IntCheck(p)
        \/ Alone(p) /\ Post(p)
        \/ Alone(p) /\ PostRaise(p)
        \/ Alone(p) /\ IntRespond(p)
        \/ Alone(p) /\ Exec(p)
        \/ Alone(p) /\ ExecFail(p)
        \/ Alone(p) /\ Commit(p)
        \/ Alone(p) /\ CommitFail(p)
        \/ Alone(p) /\ Abort(p)

SeqSpec == Init /\ [][SeqNext]_vars

\* Invocations one after another in which nothing fails: no crash, no
\* transport error, no failure of a ledger write.
CleanNext ==
    \E p \in Procs :
        \/ Alone(p) /\ StartDag(p)
        \/ Alone(p) /\ \E c \in BatchData : StartSingle(p, c)
        \/ Alone(p) /\ \E c \in PreparedData : StartPrepared(p, c)
        \/ Alone(p) /\ DagCheck(p)
        \/ Alone(p) /\ IntCheck(p)
        \/ Alone(p) /\ Post(p)
        \/ Alone(p) /\ IntRespond(p)
        \/ Alone(p) /\ Exec(p)
        \/ Alone(p) /\ Commit(p)

CleanSpec == Init /\ [][CleanNext]_vars

\* Runs of the scheduled job one after another over the same listing; a run
\* may be killed at any step and the job run again.
JobNext ==
    \E p \in Procs :
        \/ Alone(p) /\ StartDag(p)
        \/ Alone(p) /\ DagCheck(p)
        \/ Alone(p) /\ Post(p)
        \/ Alone(p) /\ Exec(p)
        \/ Alone(p) /\ Commit(p)
        \/ Alone(p) /\ Abort(p)

JobSpec == Init /\ [][JobNext]_vars

\* ------------------------------------------- unique_transaction_id alone
\* Component values of two candidates: names and lot labels with and without
\* the separator, blank, None and absent lot labels and vessel codes, and
\* quantities written in different ways.
IdNames == {"B", "B_Flour", "Flour"}
IdLots == {"LOT1", "Flour_LOT1", "", "None", Absent}
IdVessels == {"V1", "None", Absent}
IdQuantities == {"5", "5.0", "2.5"}
IdInputs == {Addition(n, l, v, q, "kg") :
                n \in IdNames, l \in IdLots, v \in IdVessels, q \in IdQuantities}

IdInit ==
    /\ feed = <<>>
    /\ Quiet
    /\ Rest
    /\ call \in {[fn |-> "unique_transaction_id", args |-> <<a, b>>, out |-> <<>>] :
                    a \in IdInputs, b \in IdInputs}

\* The id of both candidates is derived.
DeriveIds ==
    /\ call.fn = "unique_transaction_id" /\ call.out = <<>>
    /\ call' = [call EXCEPT !.out = <<unique_transaction_id(call.args[1]),
                                       unique_transaction_id(call.args[2])>>]
    /\ UNCHANGED <<dispatchVars, http, cache, cardex>>

IdNext == DeriveIds

IdSpec == IdInit /\ [][IdNext]_vars

\* ------------------------------ normalize_quantity_for_transaction_id alone
\* Quantities as int, float and numeric str: the same amount written in
\* different ways, amounts that differ in the 8th to 10th fractional digit, and
\* amounts of ten million with nine fractional digits.
NormQuantities ==
    {"5", "5.0", "'5.000000000'", "5.1", "5.10000001", "'5.1000000004'",
     "'5.1000000006'", "2.5", "'2.50'", "1000000", "'0.000000001'",
     "'999999.999999999'", "'10000000.000000001'", "'10000000.000000002'"}

NormInit ==
    /\ feed = <<>>
    /\ Quiet
    /\ Rest
    /\ call \in {[fn |-> "normalize_quantity_for_transaction_id",
                   args |-> <<q1, q2>>, out |-> <<>>] :
                    q1 \in NormQuantities, q2 \in NormQuantities}

\* Both quantities are normalized.
NormalizeBoth ==
    /\ call.fn = "normalize_quantity_for_transaction_id" /\ call.out = <<>>
    /\ call' = [call EXCEPT !.out =
                    <<normalize_quantity_for_transaction_id(call.args[1]),
                      normalize_quantity_for_transaction_id(call.args[2])>>]
    /\ UNCHANGED <<dispatchVars, http, cache, cardex>>

NormNext == NormalizeBoth

NormSpec == NormInit /\ [][NormNext]_vars

\* ------------------------------------------------ retrying request functions
Methods == {"GET", "POST", "PUT", "DELETE"}

HttpInit ==
    /\ feed = <<>>
    /\ Quiet
    /\ call = NoCall
    /\ Rest

\* A caller calls retry_request(url, headers, method, payload, params).
CallRetryRequest ==
    /\ http.pc \in {"idle", "done"}
    /\ \E r \in RetryRequests : http' = HttpCall("retry_request", r)
    /\ UNCHANGED <<dispatchVars, call, cache, cardex>>

\* One activation of retry_request: the request by method, and the branch of
\* its status code.  An unsupported method raises ValueError before a request.
RetryRequestStep ==
    /\ http.fn = "retry_request" /\ http.pc = "request"
    /\ IF http.args.method \notin Methods THEN http' = Done(http, ReturnNone)
       ELSE \E a \in Answers : http' = retry_request(Issue(http, a), a)
    /\ UNCHANGED <<dispatchVars, call, cache, cardex>>

\* time.sleep returns and retry_request calls itself with the same arguments.
RetryRequestAgain ==
    /\ http.fn = "retry_request" /\ http.pc = "sleep"
    /\ http' = [http EXCEPT !.pc = "request", !.wait = 0]
    /\ UNCHANGED <<dispatchVars, call, cache, cardex>>

CallFetch ==
    /\ http.pc \in {"idle", "done"}
    /\ http' = HttpCall("fetch_from_bakery_ops_api", BakeryOpsRequest)
    /\ UNCHANGED <<dispatchVars, call, cache, cardex>>

\* One pass of the loop of fetch_from_bakery_ops_api up to its sleep.
FetchStep ==
    /\ http.fn = "fetch_from_bakery_ops_api" /\ http.pc = "request"
    /\ \E a \in Answers : http' = fetch_from_bakery_ops_api(Issue(http, a), a)
    /\ UNCHANGED <<dispatchVars, call, cache, cardex>>

\* time.sleep returns and the loop condition is tested.
FetchAgain ==
    /\ http.fn = "fetch_from_bakery_ops_api" /\ http.pc = "sleep"
    /\ http' = Loop(http, Exhausted)
    /\ UNCHANGED <<dispatchVars, call, cache, cardex>>

CallGetData ==
    /\ http.pc \in {"idle", "done"}
    /\ http' = HttpCall("get_data_from_bakery_system", BakerySystemRequest)
    /\ UNCHANGED <<dispatchVars, call, cache, cardex>>

\* One pass of the loop of get_data_from_bakery_system up to its sleep.
GetDataStep ==
    /\ http.fn = "get_data_from_bakery_system" /\ http.pc = "request"
    /\ \E a \in Answers : http' = get_data_from_bakery_system(Issue(http, a), a)
    /\ UNCHANGED <<dispatchVars, call, cache, cardex>>

\* time.sleep returns and the loop condition is tested.
GetDataAgain ==
    /\ http.fn = "get_data_from_bakery_system" /\ http.pc = "sleep"
    /\ http' = Loop(http, ReturnNone)
    /\ UNCHANGED <<dispatchVars, call, cache, cardex>>

\* The steps of a call in progress: a request is answered or fails, a sleep
\* ends.
HttpRun ==
    \/ RetryRequestStep
    \/ RetryRequestAgain
    \/ FetchStep
    \/ FetchAgain
    \/ GetDataStep
    \/ GetDataAgain

HttpNext ==
    \/ CallRetryRequest
    \/ CallFetch
    \/ CallGetData
    \/ HttpRun

HttpSpec == HttpInit /\ [][HttpNext]_vars

\* A call in progress is never suspended for ever.
HttpLiveSpec == HttpSpec /\ WF_vars(HttpRun)

\* ---------------------------------------------------- response cache alone
CacheInit ==
    /\ feed = <<>>
    /\ Quiet
    /\ call = NoCall
    /\ Rest

\* Time passes: to the last second of the freshness window, then second by
\* second.
Tick ==
    /\ cache.now < MaxNow
    /\ cache' = [cache EXCEPT !.now = IF @ < TIMEOUT - 1 THEN TIMEOUT - 1 ELSE @ + 1]
    /\ UNCHANGED <<dispatchVars, call, http, cardex>>

\* retry_request_lru stores the response of a GET.
SetInCache ==
    /\ \E k \in CacheKeys, r \in CacheableResponses :
          cache' = set_in_lru_cache(cache, k, r)
    /\ UNCHANGED <<dispatchVars, call, http, cardex>>

\* Another writer of the database leaves a row whose text is not JSON.
ForeignRow ==
    /\ \E k \in CacheKeys, t \in ForeignTexts :
          /\ ~cache.rows[k].present
          /\ cache' = [cache EXCEPT !.rows[k] = CacheRow(t, cache.now)]
    /\ UNCHANGED <<dispatchVars, call, http, cardex>>

\* invalidate_lru_cache removes the row of a key.
Invalidate ==
    /\ \E k \in CacheKeys :
          /\ cache.rows[k].present
          /\ cache' = delete_from_lru_cache(cache, k)
    /\ UNCHANGED <<dispatchVars, call, http, cardex>>

\* A caller asks for a key.
LookUp ==
    /\ call.fn = "none" \/ call.out # <<>>
    /\ \E k \in CacheKeys :
          call' = [fn |-> "get_from_lru_cache", args |-> <<k>>, out |-> <<>>]
    /\ UNCHANGED <<dispatchVars, http, cache, cardex>>

\* get_from_lru_cache runs: the SELECT, the parse and the clean-up.
GetFromCache ==
    /\ call.fn = "get_from_lru_cache" /\ call.out = <<>>
    /\ LET r == get_from_lru_cache(cache, call.args[1]) IN
          /\ call' = [call EXCEPT !.out = <<r.ret>>]
          /\ cache' = r.cache
    /\ UNCHANGED <<dispatchVars, http, cardex>>

CacheNext ==
    \/ Tick
    \/ SetInCache
    \/ ForeignRow
    \/ Invalidate
    \/ LookUp
    \/ GetFromCache

CacheSpec == CacheInit /\ [][CacheNext]_vars

\* ------------------------------------------------------- retry_request_lru
\* A caller makes a request through the cache; seq tells a call from the one
\* before it.
RetryRequestLru ==
    /\ \E k \in CacheKeys, m \in {"GET", "POST"}, v \in LruAnswers :
          LET r == retry_request_lru(cache, k, m, v)
              seq == IF call.fn = "retry_request_lru" THEN 1 - call.args[4] ELSE 0
          IN  /\ call' = [fn |-> "retry_request_lru",
                          args |-> <<k, m, cache.now, seq>>,
                          out |-> <<r.ret, r.contacted, v>>]
              /\ cache' = r.cache
    /\ UNCHANGED <<dispatchVars, http, cardex>>

LruNext ==
    \/ Tick
    \/ RetryRequestLru

LruSpec == CacheInit /\ [][LruNext]_vars

\* ------------------------------------------------- _create_cache_key alone
Nested == { Dict(<<Item("x", Scalar("1")), Item("y", Scalar("2"))>>),
            Dict(<<Item("y", Scalar("2")), Item("x", Scalar("1"))>>) }
KeyValues == {Scalar("1"), Scalar("2")} \cup Nested
\* Every map of at most two items over the keys a and b.
KeyMaps ==
    {Dict(<<>>)}
    \cup {Dict(<<Item(k, v)>>) : k \in {"a", "b"}, v \in KeyValues}
    \cup {Dict(<<Item("a", v), Item("b", w)>>) : v \in KeyValues, w \in KeyValues}
    \cup {Dict(<<Item("b", w), Item("a", v)>>) : v \in KeyValues, w \in KeyValues}
KeyUrls == { Url("https://host/items", <<>>),
             Url("https://host/items", <<Item("b", Scalar("1"))>>) }

KeyInit ==
    /\ feed = <<>>
    /\ Quiet
    /\ Rest
    /\ call \in {[fn |-> "_create_cache_key", args |-> <<u, p1, p2, b1, b2>>,
                   out |-> <<>>] :
                    u \in KeyUrls, p1 \in KeyMaps, p2 \in KeyMaps,
                    b1 \in Nested \cup {Dict(<<>>)}, b2 \in Nested}

\* The key of (url, p1, b1), of (url, p2, b2), and of (url, p1, b1) again.
CreateKeys ==
    /\ call.fn = "_create_cache_key" /\ call.out = <<>>
    /\ call' = [call EXCEPT !.out =
                    <<_create_cache_key(call.args[1], call.args[2], call.args[4]),
                      _create_cache_key(call.args[1], call.args[3], call.args[5]),
                      _create_cache_key(call.args[1], call.args[2], call.args[4])>>]
    /\ UNCHANGED <<dispatchVars, http, cache, cardex>>

KeyNext == CreateKeys

KeySpec == KeyInit /\ [][KeyNext]_vars

\* ------------------------------------ submit_ingredient_batch_action alone
\* A run starts on a rowset; the service and the cache are as the runs
\* before left them.
StartSubmit ==
    /\ cardex.pc \in {"idle", "returned", "raised"}
    /\ \E rows \in Rowsets :
          cardex' = [cardex EXCEPT !.pc = "row", !.rows = rows, !.idx = 1,
                                   !.post_data = 0]
    /\ UNCHANGED <<dispatchVars, call, http, cache>>

SubmitNextRow ==
    /\ cardex.pc = "row"
    /\ cardex' = SubmitRow(cardex, cardex.rows[cardex.idx])
    /\ UNCHANGED <<dispatchVars, call, http, cache>>

\* The cached reads expire.
ReadsExpire ==
    /\ cardex.pc \in {"returned", "raised"}
    /\ cardex.batch_read.present \/ cardex.movement_read.present
    /\ cardex' = [cardex EXCEPT !.batch_read = NoListing,
                                 !.movement_read = NoListing]
    /\ UNCHANGED <<dispatchVars, call, http, cache>>

CardexNext ==
    \/ StartSubmit
    \/ SubmitNextRow
    \/ ReadsExpire

CardexSpec == CacheInit /\ [][CardexNext]_vars

\* ------------------------------------------------ one source action alone
\* Actions with no batch, one batch whose number ends in the label of the lot
\* entry, one batch with another label, one batch without a number, and two
\* batches.
ActionBatches ==
    { <<>>, <<Batch("B1", "B_Flour_LOT1")>>, <<Batch("B2", "B_Flour_LOT2")>>,
      <<Batch("B3", "None")>>,
      <<Batch("B1", "B_Flour_LOT1"), Batch("B2", "B_Flour_LOT2")>> }
Actions ==
    { Action("B_Flour", u, bs, l, v, q) :
        u \in {"kg", "L"}, bs \in ActionBatches, l \in {"LOT1", "LOT9", Absent},
        v \in {"V1", "V2"}, q \in {"5", "5.0", "2.5"} }

ActionInit ==
    /\ feed = <<>>
    /\ Quiet
    /\ Rest
    /\ call \in {[fn |-> "action", args |-> <<a>>, out |-> <<>>] : a \in Actions}

\* Both paths read the action: the items of the scheduled path, the records
\* of the interactive path, the dispatch of the records on an empty ledger,
\* and their dispatch after a scheduled run delivered the items.
ReadAction ==
    /\ call.fn = "action" /\ call.out = <<>>
    /\ LET a == call.args[1]
           parsed == parse_bakery_system_json(<<AdditionOf(a)>>)
           records == get_streamlined_action_data(a)
       IN  call' = [call EXCEPT !.out =
                       <<parsed, records, DispatchAll(records, 1, <<>>),
                         DispatchAll(records, 1, DoneRows(parsed))>>]
    /\ UNCHANGED <<dispatchVars, http, cache, cardex>>

ActionNext == ReadAction

ActionSpec == ActionInit /\ [][ActionNext]_vars

\* ---------------------------------------------- payload of a batch alone
\* batch_data of the interactive paths: with and without a lot label, with
\* batch labels that start with the product name, hold it further in, or do
\* not hold it, and without a batch label.
PayloadData ==
    { [action_id |-> "A1", ingredient_id |-> "I1", ingredient_name |-> n,
       batch_id |-> "B7", lot_number |-> l, batch_number |-> bn,
       vessel_code |-> "V1", quantity |-> q, unit |-> u] :
        n \in {"B_Flour", "Flour"}, l \in {"", "L9", Absent},
        bn \in {"", Absent, "B_Flour_L1", "Flour_L1", "L1"},
        q \in {"5", "0"}, u \in {"kg", "bag", "None"} }

\* The ledger has no row of the batch, a row 'done' or a row 'error'.
PayloadLedgers(b) ==
    {<<>>} \cup {<<[unique_transaction_id |-> unique_transaction_id(b),
                    status |-> st]>> : st \in {"done", "error"}}

PayloadInit ==
    /\ feed = <<>>
    /\ Quiet
    /\ Rest
    /\ call \in {[fn |-> "jde_payload", args |-> <<b, rows>>, out |-> <<>>] :
                    b \in PayloadData,
                    rows \in UNION {PayloadLedgers(d) : d \in PayloadData}}

\* The preview and the dispatch of the same batch_data on the same ledger.
BuildPayloads ==
    /\ call.fn = "jde_payload" /\ call.out = <<>>
    /\ call' = [call EXCEPT !.out =
                    <<prepare_jde_payload(call.args[1], call.args[2]),
                      dispatch_single_batch_to_jde(call.args[1], call.args[2])>>]
    /\ UNCHANGED <<dispatchVars, http, cache, cardex>>

PayloadNext == BuildPayloads

PayloadSpec == PayloadInit /\ [][PayloadNext]_vars

TypeOK ==
    /\ feed \in Feeds
    /\ \A p \in Procs : pc[p] \in Terminal \cup
                          {"check", "post", "respond", "exec", "commit"}
    /\ runs \in 0..MaxRuns

\* ------------------------------------------------------------------ claims
HasDone(rows, u) == \E i \in 1..Len(rows) :
                       rows[i].unique_transaction_id = u /\ rows[i].status = "done"
RowCount(rows, u) == Cardinality(RowIdx(rows, u))

\* Runner p answers "already dispatched / already marked as done" in this step.
SkipsAsDone(p) ==
    \/ ret'[p] = Failure("already dispatched") /\ pc'[p] = "returned"
    \/ /\ Len(resp_arr'[p]) > Len(resp_arr[p])
       /\ resp_arr'[p][Len(resp_arr'[p])].tag = "ERROR_done"

\* Runner p sends a POST that the destination receives in this step.
Sends(p) == pc[p] = "post" /\ pc'[p] \in {"exec", "respond"}

\* C1: with invocations made one after another, no POST is sent for an
\* identity whose ledger row is 'done', and an attempt is turned away as
\* already dispatched only when the row of its identity is 'done' (a row with
\* status 'error', or no row, does not suppress the POST).
C1_DoneIsTheOnlySuppressor ==
    [][\A p \in Procs :
         /\ Sends(p) => ~HasDone(ledger, CurUid(p))
         /\ (pc[p] = "check" /\ SkipsAsDone(p)) => HasDone(ledger, CurUid(p))
      ]_vars

\* A second attempt was turned away after the first one was delivered and
\* recorded as 'done'.
C1_Witness ==
    \E u \in Uids, p \in Procs :
        /\ posts[u] = 1 /\ delivered[u] = 1 /\ HasDone(ledger, u)
        /\ pc[p] = "returned" /\ ret[p] = Failure("already dispatched")

\* Status of the row of identity u (the first one, should there be several).
RowStatus(rows, u) ==
    IF RowIdx(rows, u) = {} THEN "absent" ELSE rows[FirstIdx(RowIdx(rows, u))].status

\* C2: over runs of the dispatch job made one after another, each of which may
\* be aborted at any step and re-run, no identity is delivered (POST answered
\* 200/201) more than once.
C2_DeliveredAtMostOnce == \A u \in Uids : delivered[u] <= 1

\* Runner p has sent the POST of its item and has not yet recorded the outcome.
InFlight(p) == pc[p] \in {"respond", "exec", "commit"}

\* C3: with a scheduled run and another run or interactive dispatch going on
\* at once, the status check, the POST and the upsert of one do not interleave
\* with those of the other so that both send the same identity: no identity
\* has been POSTed by both while neither has recorded its outcome.
C3_NoIdentitySentByBothRuns ==
    \A p \in Procs, q \in Procs :
        (p # q /\ op[p] = "dag" /\ InFlight(p) /\ InFlight(q))
            => CurUid(p) # CurUid(q)

\* C4: whatever the interleaving of writers that upsert the same identity,
\* the ledger holds at most one row per identity, and once an upsert of the
\* identity has been committed exactly one, with the status written by the
\* upsert committed last.
C4_UpsertOneRowLastWriterWins ==
    \A u \in Uids :
        /\ RowCount(ledger, u) <= 1
        /\ lastUpsert[u] # "none" =>
              (RowCount(ledger, u) = 1 /\ RowStatus(ledger, u) = lastUpsert[u])

\* Two scheduled runs both POSTed the same identity, one answered 200 and one
\* answered with an error, both committed their upserts and went on to the
\* next item; the error was committed last and is the status of the one row.
C4_Witness ==
    \E u \in Uids :
        /\ \A p \in Procs : op[p] = "dag" /\ pc[p] = "check" /\ idx[p] = 2
        /\ posts[u] = 2 /\ delivered[u] = 1
        /\ lastUpsert[u] = "error"
        /\ RowCount(ledger, u) = 1 /\ RowStatus(ledger, u) = "error"

\* The attempt of runner p on its item ends in this step with the response
\* processed and no failure of the ledger write: the branch after the response
\* has run to its end.
AttemptEnds(p) == IntRespond(p) \/ Commit(p)

\* C5: an attempt that received a response to its POST ends with one ledger
\* row of its identity, 'done' for 200/201 and 'error' for any other response,
\* on every dispatch path.
C5_EveryAnsweredPostIsRecorded ==
    [][\A p \in Procs :
         AttemptEnds(p) =>
            /\ RowCount(ledger', CurUid(p)) = 1
            /\ RowStatus(ledger', CurUid(p)) = StatusFor(resp[p])
      ]_vars

\* C6: when an identity is dispatched a second time after an earlier dispatch,
\* the ledger holds exactly one row of it afterwards, with the status of the
\* second outcome.
C6_SecondAttemptLeavesOneRow ==
    [][\A p \in Procs :
         (AttemptEnds(p) /\ posts[CurUid(p)] >= 2) =>
            /\ RowCount(ledger', CurUid(p)) = 1
            /\ RowStatus(ledger', CurUid(p)) = StatusFor(resp[p])
      ]_vars

HasEntry(arr, k) == \E i \in 1..Len(arr) : arr[i].key = k

\* C7: a batch run is never ended by the failure of one candidate: it does not
\* leave post_data_to_jde by an exception, and the list it returns holds an
\* entry for every candidate handed to it.
C7_BatchSurvivesItemFailure ==
    \A p \in Procs :
        op[p] = "dag" =>
            /\ pc[p] # "raised"
            /\ pc[p] = "returned" =>
                  \A i \in 1..Len(parse_bakery_system_json(feed)) :
                      HasEntry(resp_arr[p], parse_bakery_system_json(feed)[i].key)

\* C8: when the upsert or its commit fails after the destination answered, the
\* caller gets a failure (an exception or a dict with success false), the
\* invocation ends without a second write, and the ledger is as it was, with
\* no write left open.
C8_LedgerFailureIsReported ==
    [][\A p \in Procs :
         (ExecFail(p) \/ CommitFail(p)) =>
            /\ ledger' = ledger
            /\ tx'[p] = NoRow
            /\ pc'[p] \in {"raised", "returned"}
            /\ pc'[p] = "returned" => ~ret'[p].success
      ]_vars

\* The only invocation so far was answered 200/201 and then failed on its
\* ledger write: the caller holds a failure and the ledger has no row.
C8_Witness ==
    \E p \in Procs, u \in Uids :
        /\ runs = 1 /\ posts[u] = 1 /\ delivered[u] = 1
        /\ pc[p] = "returned" /\ ret[p] = Failure("Database or network error")
        /\ RowCount(ledger, u) = 0 /\ tx[p] = NoRow

\* Quantity of the source addition behind the item of runner p.
SourceQuantity(p) == IF op[p] = "dag" THEN feed[CurItem(p).key].quantity
                     ELSE CurItem(p).quantity

ZeroQuantities == {"None", "0", "'0'", "'0.0'", "''"}

\* C10: a candidate whose quantity is None, 0, "0", "0.0" or "" is never
\* POSTed on any path, and the result handed to the caller names it as
\* skipped or failed.
C10_ZeroQuantityNeverPosted ==
    \A p \in Procs :
        /\ InFlight(p) => SourceQuantity(p) \notin ZeroQuantities
        /\ (op[p] = "dag" /\ pc[p] = "returned") =>
              \A k \in 1..Len(feed) :
                  feed[k].quantity \in ZeroQuantities => HasEntry(resp_arr[p], k)

\* post_data_to_jde sends an item that is not 'done' unless a required field
\* is empty.
ValidItem(item) ==
    /\ item.change_value # "0.0"
    /\ item.addition_unit \notin {"", "None"}
    /\ item.ingredient_name # ""

\* C9: killing a run leaves the committed rows as they are; a run that finds
\* a 'done' row for a candidate skips it; and once the run after a killed one
\* ends by itself, every valid candidate of the listing has been POSTed.
C9_NextRunReachesEveryCandidate ==
    /\ [][\A p \in Procs : Abort(p) => ledger' = ledger]_vars
    /\ [][\A p \in Procs :
            (DagCheck(p) /\ HasDone(ledger, CurUid(p))) => SkipsAsDone(p)]_vars
    /\ [][\A p \in Procs, q \in Procs :
            (/\ p # q /\ pc[q] = "aborted"
             /\ op[p] = "dag" /\ pc[p] \notin Terminal
             /\ pc'[p] \in {"returned", "raised"})
            => \A i \in 1..Len(parse_bakery_system_json(feed)) :
                  LET item == parse_bakery_system_json(feed)[i]
                  IN ValidItem(item) => posts'[item.unique_transaction_id] >= 1
         ]_vars

\* The row of identity u, and what the upsert must leave alone in it.
RowOf(rows, u) == rows[FirstIdx(RowIdx(rows, u))]
Frame(row) == [row EXCEPT !.status = "", !.status_text = ""]

\* C11: in every step, an identity that has a ledger row still has it, with
\* action_id, ingredient_id, lot_id, vessel_id, vessel_code, ingredient_name,
\* addition_unit and unique_transaction_id as they were: an upsert that hits an
\* existing row changes status and status_text only, and no row is deleted.
C11_UpsertChangesStatusOnly ==
    [][ledger' # ledger =>
         \A u \in Uids :
           RowCount(ledger, u) >= 1 =>
              /\ RowCount(ledger', u) >= 1
              /\ Frame(RowOf(ledger', u)) = Frame(RowOf(ledger, u))
      ]_vars

\* An interactive dispatch committed 'done' onto a row that a scheduled run
\* had inserted with its own lot_id and vessel_id.
C11_Witness ==
    \E p \in Procs, u \in Uids :
        /\ op[p] = "single" /\ pc[p] = "returned" /\ ret[p] = Success
        /\ posts[u] = 2 /\ RowCount(ledger, u) = 1
        /\ RowOf(ledger, u).status = "done"
        /\ RowOf(ledger, u).status_text = StatusText([code |-> 200, json |-> TRUE, body |-> ShortJson])
        /\ RowOf(ledger, u).vessel_id = "V:V1"
        /\ RowOf(ledger, u).lot_id = "L:LOT1"

\* C12: every status_text in the ledger, committed or written and not yet
\* committed, is at most 699 characters long.
C12_StatusTextAtMost699 ==
    /\ \A i \in 1..Len(ledger) : Len(ledger[i].status_text) <= 699
    /\ \A p \in Procs : Len(tx[p].status_text) <= 699

\* A committed row holds the first 699 characters of a longer body.
C12_Witness ==
    \E i \in 1..Len(ledger) :
        /\ Len(ledger[i].status_text) = 699
        /\ ledger[i].status = "error"
        /\ ledger[i].status_text = SubSeq(LongText, 1, 699)
        /\ Len(LongText) > 699

\* The four components an id is made of.
Components(c) ==
    <<c.ingredient_name, Get(c.lot_number, ""), Get(c.vessel_code, ""),
      NormalizedQuantity[c.quantity]>>

\* C13: two candidates get the same unique_transaction_id exactly when they
\* agree in name, lot label, vessel code and normalized quantity.
C13_IdInjective ==
    (call.fn = "unique_transaction_id" /\ call.out # <<>>) =>
        ((call.out[1] = call.out[2])
            <=> (Components(call.args[1]) = Components(call.args[2])))

\* C15: a lot label or vessel code that is absent, blank or None is the empty
\* string in the id, which is name_lot_vessel_quantity with the other
\* components as they are.
C15_BlankComponentsRenderEmpty ==
    (call.fn = "unique_transaction_id" /\ call.out # <<>>) =>
        \A i \in {1, 2} :
            LET c == call.args[i]
                shown(v) == IF v \in {Absent, "None", ""} THEN "" ELSE v
            IN call.out[i] =
                  c.ingredient_name \o "_" \o shown(c.lot_number) \o "_"
                     \o shown(c.vessel_code) \o "_"
                     \o NormalizedQuantity[c.quantity]

\* The quantity in units of 10^-9 after rounding its decimal digits to 9
\* fractional digits (a 10th digit of 5 or more rounds up).
RoundedTo9(q) ==
    LET d == ParseDecimal(PyStr(q))
        M == d.int \o d.frac
        f == Len(d.frac)
    IN IF f <= 9 THEN StripZeros(M \o Zeros(9 - f))
       ELSE LET keep == SubSeq(M, 1, Len(M) - (f - 9))
                tenth == M[Len(M) - (f - 9) + 1]
            IN StripZeros(IF tenth >= 5 THEN Plus1(keep) ELSE keep)

RECURSIVE HasChar(_, _)
HasChar(s, ch) ==
    Len(s) > 0 /\ (SubSeq(s, 1, 1) = ch \/ (Len(s) > 1 /\ HasChar(SubSeq(s, 2, Len(s)), ch)))

\* No trailing decimal point and no trailing zero behind a decimal point.
Trimmed(s) ==
    /\ Len(s) > 0
    /\ SubSeq(s, Len(s), Len(s)) # "."
    /\ HasChar(s, ".") => SubSeq(s, Len(s), Len(s)) # "0"

\* C14: two quantities normalize to the same text exactly when they are equal
\* after rounding to 9 fractional digits, and the text has no trailing zeros
\* and no trailing decimal point.
C14_NormalizeEqualIffRoundedEqual ==
    (call.fn = "normalize_quantity_for_transaction_id" /\ call.out # <<>>) =>
        /\ (call.out[1] = call.out[2])
              <=> (RoundedTo9(call.args[1]) = RoundedTo9(call.args[2]))
        /\ Trimmed(call.out[1]) /\ Trimmed(call.out[2])


\* A step in which fn issued a request and got the answer http'.last.
Answered(fn) ==
    /\ http.fn = fn /\ http.pc = "request"
    /\ http'.pc # "request" \/ http'.retry_count # http.retry_count
    /\ http'.last # NoAnswer
    /\ http.fn = "retry_request" => http.args.method \in Methods

RetryingFunctions ==
    {"retry_request", "fetch_from_bakery_ops_api", "get_data_from_bakery_system"}

\* C16: a call of retry_request, fetch_from_bakery_ops_api or
\* get_data_from_bakery_system that is in progress ends, returning or raising,
\* unless the server answers something other than a 429 without a wait hint:
\* against a server that only gives such answers no call retries for ever.
C16_BackoffTerminates ==
    (http.pc \in {"request", "sleep"})
        ~> (http.pc = "done" \/ http.last \notin (NoHint429 \cup {NoAnswer}))

\* The first activation of retry_request with the arguments of the call in
\* progress, answered by a.
FirstAttempt(fn, a) == Issue(HttpCall(fn, http.args), a)

\* C17: when retry_request is answered 429 or 423 it sleeps metadata.wait
\* seconds if the body gives a positive one and 10 seconds otherwise; after the
\* sleep it issues a request with the arguments of the call; every request it
\* issues carries those arguments; and an attempt answered 200 or 201 gives the
\* caller what a first attempt with that answer gives.
C17_RateLimitWaitsAndReissues ==
    [][ /\ (Answered("retry_request") /\ http'.last.code \in {429, 423})
            => /\ http'.pc = "sleep"
               /\ http'.wait = IF http'.last.body = "wait" /\ http'.last.wait > 0
                               THEN http'.last.wait ELSE 10
        /\ (http.fn = "retry_request" /\ http.pc = "sleep")
            => (http'.pc = "request" /\ http'.args = http.args)
        /\ Answered("retry_request") => http'.lastSent = http.args
        /\ (Answered("retry_request") /\ http'.last.code \in {200, 201})
            => /\ http'.pc = "done"
               /\ http'.result =
                      retry_request(FirstAttempt("retry_request", http'.last),
                                    http'.last).result
      ]_vars

\* C18: when retry_request is answered a 4xx other than 429 and 423 it ends
\* without a further request, and what it returns or raises carries the error
\* detail of the response body.
C18_ClientErrorSurfaced ==
    [][ (/\ Answered("retry_request")
         /\ http'.last.code \in 400..499
         /\ http'.last.code \notin {429, 423})
            => /\ http'.pc = "done"
               /\ http'.result.kind \in {"value", "raise"}
               /\ http'.result.detail = http'.last.detail
      ]_vars

TransportFailures == {"Timeout", "ConnectionError"}

\* C19: when a request of one of the functions fails at the transport level,
\* the function reports a failure only if at least 3 requests were issued, sleeps the same delay before every retry, and does not retry
\* once max_retries + 1 requests were issued.
C19_TransportFailureRetried ==
    [][ \A fn \in RetryingFunctions :
          (Answered(fn) /\ http'.last.kind \in TransportFailures)
            => /\ http'.pc = "done" => http'.sent >= 3
               /\ http'.pc = "sleep" =>
                     http'.wait =
                        CASE fn = "retry_request" ->
                               retry_request(FirstAttempt(fn, http'.last),
                                             http'.last).wait
                          [] fn = "fetch_from_bakery_ops_api" ->
                               fetch_from_bakery_ops_api(
                                   FirstAttempt(fn, http'.last), http'.last).wait
                          [] OTHER ->
                               get_data_from_bakery_system(
                                   FirstAttempt(fn, http'.last), http'.last).wait
               /\ http'.sent >= max_retries + 1 => http'.pc = "done"
      ]_vars

\* The step in which get_from_lru_cache(key) returns.
Returned(key) ==
    /\ call.fn = "get_from_lru_cache" /\ call.args = <<key>>
    /\ call.out = <<>> /\ call'.out # <<>>

LruReturned(key, method) ==
    /\ call' # call /\ call'.fn = "retry_request_lru"
    /\ call'.args[1] = key /\ call'.args[2] = method

\* A GET of key that contacted the server.
Fetched(c) ==
    /\ c.fn = "retry_request_lru" /\ c.args[2] = "GET" /\ c.out[2]

\* C21: after a GET through retry_request_lru that the server answered with
\* the empty list, get_from_lru_cache on the same key returns None, and the
\* call stored no row: the key has no row or the row it had before.
C21_EmptyResponseNotCached ==
    [][ \A key \in CacheKeys :
          (LruReturned(key, "GET") /\ Fetched(call') /\ call'.out[3] = EmptyList)
            => /\ get_from_lru_cache(cache', key).ret = PyNone
               /\ cache'.rows[key].present => cache'.rows[key] = cache.rows[key]
      ]_vars

\* A GET was answered [] and its key has no row.
C21_Witness ==
    /\ Fetched(call) /\ call.out[3] = EmptyList
    /\ ~cache.rows[call.args[1]].present

\* C26: when a GET through retry_request_lru follows, less than 3600 seconds
\* later, a GET of the same key that missed the cache and fetched a response
\* that is not empty, it is answered without contacting the server.
C26_FetchedThenServedFromCache ==
    [][ \A key \in CacheKeys :
          (/\ LruReturned(key, "GET")
           /\ Fetched(call) /\ call.args[1] = key
           /\ call.out[1] # PyNone
           /\ cache.now - call.args[3] < 3600)
            => ~call'.out[2]
      ]_vars

\* C27: when a GET through retry_request_lru is answered from the cache and
\* the call before it was the GET of the same key that fetched the response,
\* both return the same value.
C27_HitEqualsMiss ==
    [][ \A key \in CacheKeys :
          (/\ LruReturned(key, "GET") /\ ~call'.out[2]
           /\ Fetched(call) /\ call.args[1] = key
           /\ call.out[1] # PyNone
           /\ cache.rows[key].timestamp = call.args[3])
            => call'.out[1] = call.out[1]
      ]_vars

\* Two values hold the same content: the same scalar, or maps with the same
\* keys and the same content under each key, in any order.
RECURSIVE SameContent(_, _)
SameContent(v, w) ==
    /\ v.kind = w.kind
    /\ v.text = w.text
    /\ Len(v.items) = Len(w.items)
    /\ \A i \in 1..Len(v.items) : \E j \in 1..Len(w.items) :
          /\ v.items[i].key = w.items[j].key
          /\ SameContent(v.items[i].val, w.items[j].val)

\* C22: when the two query maps hold the same pairs and the two body maps
\* hold the same pairs, nested maps included, _create_cache_key gives both
\* the same key; and a second call with the same arguments gives the key of
\* the first.
C22_CacheKeyIgnoresOrder ==
    (call.fn = "_create_cache_key" /\ call.out # <<>>) =>
        /\ (SameContent(call.args[2], call.args[3])
             /\ SameContent(call.args[4], call.args[5]))
              => call.out[1] = call.out[2]
        /\ call.out[3] = call.out[1]

\* Keys were computed for query maps and body maps that hold the same pairs
\* in a different order, at the top and inside a nested map.
C22_Witness ==
    /\ call.fn = "_create_cache_key" /\ call.out # <<>>
    /\ SameContent(call.args[2], call.args[3]) /\ call.args[2] # call.args[3]
    /\ SameContent(call.args[4], call.args[5]) /\ call.args[4] # call.args[5]
    /\ Len(call.args[2].items) = 2
    /\ call.args[2].items[1].val \in Nested
    /\ call.args[2].items[1].key = call.args[3].items[2].key
    /\ call.args[2].items[1].val # call.args[3].items[2].val

\* C23: in every pass of submit_ingredient_batch_action that POSTs a batch or
\* a batch action to the service, both cached reads are gone afterwards, and
\* the run goes on to the next row or returns after the last one.
C23_InvalidatedAfterPost ==
    [][ (/\ cardex.pc = "row"
         /\ cardex'.batches # cardex.batches \/ cardex'.docs # cardex.docs)
            => /\ ~cardex'.batch_read.present
               /\ ~cardex'.movement_read.present
               /\ cardex'.pc = IF cardex.idx < Len(cardex.rows)
                               THEN "row" ELSE "returned"
      ]_vars

\* The lot label the rule gives batch_data b that has no lot label of its own.
LotRule(b) ==
    LET batch_number == Get(b.batch_number, "")
        prefix == b.ingredient_name \o "_"
    IN  IF batch_number = "" THEN b.batch_id
        ELSE IF StartsWith(batch_number, prefix)
        THEN From(batch_number, Len(prefix) + 1)
        ELSE batch_number

\* batch_data that passes the checks before the lot label: fields, quantity,
\* ledger and unit.
ReachesLot(b, rows) ==
    /\ ~MissingFields(b) /\ ~IsZeroOrNull(b.quantity)
    /\ ~SingleAlreadyDone(rows, unique_transaction_id(b))

\* C24: for batch_data without a lot label that passes the checks before it,
\* prepare_jde_payload and dispatch_single_batch_to_jde both build a payload
\* whose LOTN is the batch label without a leading "{name}_", the batch label
\* itself when it does not start with it, and batch_id when there is no batch
\* label.
C24_LotLabelRule ==
    (/\ call.fn = "jde_payload" /\ call.out # <<>>
     /\ ReachesLot(call.args[1], call.args[2])
     /\ Falsy(Get(call.args[1].lot_number, "")))
        => \A i \in {1, 2} :
              /\ call.out[i].success
              /\ call.out[i].jde_payload.LOTN = LotRule(call.args[1])

\* C29: prepare_jde_payload returns success exactly when
\* dispatch_single_batch_to_jde POSTs, and then both payloads have the same
\* Branch_Plant, Item_Number, Quantity, UM and LOTN.
C29_PreviewMatchesDispatch ==
    (call.fn = "jde_payload" /\ call.out # <<>>) =>
        /\ call.out[1].success <=> call.out[2].success
        /\ call.out[1].success => call.out[1].jde_payload = call.out[2].jde_payload

\* C25: once the ledger row of an identity has status 'done', no ledger write
\* of any run changes it to 'error', also when a second run read the status
\* before it became 'done' and its own POST is then rejected.
C25_DoneNeverBecomesError ==
    [][ledger' # ledger =>
         \A u \in Uids :
           RowStatus(ledger, u) = "done" => RowStatus(ledger', u) # "error"
      ]_vars

\* C28: for one source addition the id of the scheduled path equals the id that
\* dispatch_single_batch_to_jde computes on every record the interactive path
\* makes of it, so after the scheduled path marked it 'done' the interactive
\* dispatch of the record answers "already dispatched".
C28_BothPathsSameId ==
    (call.fn = "action" /\ call.out # <<>>) =>
        \A j \in 1..Len(call.out[1]), i \in 1..Len(call.out[2]) :
            /\ unique_transaction_id(call.out[2][i])
                   = call.out[1][j].unique_transaction_id
            /\ call.out[4][i] = Refused("already dispatched")

\* Quantities of the actions in tenths.
Tenths(q) ==
    CASE q \in {"5", "5.0"} -> 50
      [] q = "2.5"          -> 25
      [] OTHER              -> 0

RECURSIVE SumTenths(_, _)
SumTenths(qs, k) == IF k > Len(qs) THEN 0 ELSE Tenths(qs[k]) + SumTenths(qs, k + 1)

\* C30: the records get_streamlined_action_data makes of an addition of
\* quantity q carry quantities that sum to q, however many batches the action
\* lists, and dispatching them all sends the destination q.
C30_RecordsSumToAddition ==
    (call.fn = "action" /\ call.out # <<>>) =>
        LET q == Tenths(call.args[1].change_value)
            carried == [i \in 1..Len(call.out[2]) |-> call.out[2][i].quantity]
            sent == [i \in 1..Len(call.out[3]) |->
                        call.out[3][i].jde_payload.Quantity]
        IN  SumTenths(carried, 1) = q /\ SumTenths(sent, 1) = q

====
